---- MODULE Spec2Model ----
(***************************************************************************)
(* Availability synchronisation engine of api-balo-calendar-polling:       *)
(* the experts table with its optimistic-lock version column, the          *)
(* availability_errors table, the Cronofy client (token guard, rate        *)
(* limiter, retry decorator) and the full refresh pass.                    *)
(***************************************************************************)
EXTENDS Integers, Sequences, FiniteSets, TLC

VARIABLES
    experts,      \* table "experts": bubble_uid -> row (DOMAIN = the uids stored)
    clock,        \* number of datetime.now() readings taken so far (timestamps)
    procs,        \* the concurrent tasks: pid -> task record (position and locals)
    lastWriter,   \* bubble_uid -> pid of the task whose write was applied last (0: none)
    token,        \* settings.CRONOFY_ACCESS_TOKEN is set
    sinceLast,    \* time.time() - CronofyService._last_request_time, in ticks,
                  \* saturating at MinRequestInterval
    gap,          \* ticks between the two most recent HTTP requests (saturating)
    errors,       \* table "availability_errors": bubble_uid -> the rows holding that key
    lastLogger,   \* bubble_uid -> pid of the task whose ledger write was applied last
                  \* to the rows stored now (0: none)
    dbFaults,     \* database errors the expert store may still raise
    cache,        \* SimpleCache._cache: cache key -> the value stored under it
    calc          \* the call of a pure helper under evaluation, with its result

storeVars == <<experts, clock, lastWriter>>
clientVars == <<token, sinceLast, gap>>
ledgerVars == <<errors, lastLogger>>
vars == <<experts, clock, procs, lastWriter, token, sinceLast, gap,
          errors, lastLogger, dbFaults, cache, calc>>

----------------------------------------------------------------------------
\* Bounds of the model

\* number of concurrent tasks writing to one expert record
NumWriters == 3
\* the record under contention starts with a version in 0..MaxInitVersion
MaxInitVersion == 1

\* Python None in a nullable column or Optional value
Null == -1
\* Python None in an Optional[str]
NoText == "None"

\* One tick of model time is half a second.
\* CronofyService._min_request_interval = 0.5 s
MinRequestInterval == 1
\* with_retry(max_retries=3, base_delay=1.0, max_delay=10.0) on fetch_cronofy_availability
MaxRetries == 3
BaseDelay == 2
MaxDelay == 20
\* fetch_experts_availability_batch refuses more than 10 experts per request
MaxExpertsPerRequest == 10

\* epoch seconds a provider slot can resolve to, and None
SlotValues == {1, 2}
AvailValues == {Null} \cup SlotValues

Pids == DOMAIN procs

\* no pure helper is under evaluation
NoCall == [fn |-> "none"]

\* the record the writers contend on
StoreUid == 1

----------------------------------------------------------------------------
\* Table "experts"

\* a row as created by Expert.upsert / bulk_create: version 0, no availability yet
NewRow(name, cronofy, cals) ==
    [expert_name |-> name, cronofy_id |-> cronofy, calendar_ids |-> cals,
     last_availability_check |-> Null, earliest_available_unix |-> Null,
     version |-> 0]

\* the rows of a table that hold cronofy_id
CronofyHolders(rows, cronofy) == {u \in DOMAIN rows : rows[u].cronofy_id = cronofy}

\* cronofy_id is unique=True: the database refuses a statement that would give
\* the row of self a cronofy_id that another row holds
CronofyTaken_Never(rows, cronofy, self) == FALSE
CronofyTaken(rows, cronofy, self) == CronofyHolders(rows, cronofy) \ {self} # {}

\* inputs of PUT /experts/{bubble_uid} (ExpertUpdate) and of a bulk upsert entry
UpdateInputs == { [cronofy_id |-> 101, calendar_ids |-> <<"calB">>] }
UpsertInputs == { [expert_name |-> "renamed", cronofy_id |-> 102,
                   calendar_ids |-> <<"calC">>] }

NoInput == [expert_name |-> "", cronofy_id |-> 0, calendar_ids |-> <<>>]

\* datetime.now(timezone.utc): the next reading of the wall clock
Now == clock + 1

\* a conditional update whose WHERE clause lost the version test
MatchesVersion_Unconditional(row, ver) == row.version = row.version

\* WHERE bubble_uid = uid AND version = ver
MatchesVersion(row, ver) == row.version = ver

\* rows selected by Expert.filter(bubble_uid=uid, version=ver)
FilterUidVersion(uid, ver) ==
    IF uid \in DOMAIN experts /\ MatchesVersion(experts[uid], ver) THEN {uid} ELSE {}

\* rows selected by Expert.filter(bubble_uid=uid)
FilterUid(uid) == IF uid \in DOMAIN experts THEN {uid} ELSE {}

\* QuerySet.update(last_availability_check=now, earliest_available_unix=val, version=ver)
UpdateRows(rows, val, ver) ==
    [u \in DOMAIN experts |->
        IF u \in rows
        THEN [experts[u] EXCEPT !.last_availability_check = Now,
                                !.earliest_available_unix = val,
                                !.version = ver]
        ELSE experts[u]]

----------------------------------------------------------------------------
\* Tasks

IdleTask ==
    [kind |-> "none", pc |-> "idle", uid |-> StoreUid,
     mem |-> NewRow("", 0, <<>>), v0 |-> 0, val |-> Null,
     inp |-> NoInput, wrote |-> 0,
     batch |-> <<>>, attempt |-> 0, timer |-> 0, posts |-> 0,
     outcome |-> "none", results |-> <<>>,
     reason |-> NoText, details |-> NoText, ts |-> 0, logged |-> "none",
     roster |-> <<>>, idx |-> 0, i |-> 0, processed |-> 0, failed |-> 0,
     algolia |-> <<>>, lost |-> {}, old |-> Null,
     total |-> 0, listing |-> << >>, raw |-> <<>>, data |-> <<>>,
     sink |-> "none", pushed |-> <<>>, existing_map |-> << >>]

\* Tasks are interchangeable, so they are started in pid order: every behaviour is
\* a renaming of one of these
CanStart(p) ==
    /\ procs[p].pc = "idle"
    /\ \A r \in Pids : r < p => procs[r].pc # "idle"

\* Expert.get_by_bubble_uid: the caller's in-memory copy of the row
LoadExpert(p, u, val) ==
    /\ CanStart(p)
    /\ u \in DOMAIN experts
    /\ procs' = [procs EXCEPT ![p] = [@ EXCEPT !.kind = "ua", !.pc = "ua_call",
                                        !.uid = u, !.mem = experts[u],
                                        !.v0 = experts[u].version, !.val = val]]
    /\ UNCHANGED <<storeVars, clientVars, ledgerVars, dbFaults, cache, calc>>

\* Expert.update_availability, first statement: the conditional update and the
\* branch on rows_updated
UpdateAvailabilityFirst_ClearsCache(p) ==
    LET t == procs[p]
        current_version == t.mem.version
        rows == FilterUidVersion(t.uid, current_version)
    IN  /\ t.pc = "ua_call"
        /\ experts' = UpdateRows(rows, t.val, current_version + 1)
        /\ clock' = clock + 1
        /\ cache' = << >>
        /\ IF rows = {}
           THEN /\ procs' = [procs EXCEPT ![p].pc = "ua_refresh"]
                /\ UNCHANGED lastWriter
           ELSE /\ procs' = [procs EXCEPT ![p] = [@ EXCEPT
                        !.pc = "ua_ret",
                        !.mem = [t.mem EXCEPT !.version = current_version + 1,
                                              !.last_availability_check = Now,
                                              !.earliest_available_unix = t.val],
                        !.wrote = @ + 1]]
                /\ lastWriter' = [lastWriter EXCEPT ![t.uid] = p]
        /\ UNCHANGED <<clientVars, ledgerVars, dbFaults, calc>>
UpdateAvailabilityFirst(p) ==
    LET t == procs[p]
        current_version == t.mem.version
        rows == FilterUidVersion(t.uid, current_version)
    IN  /\ t.pc = "ua_call"
        /\ experts' = UpdateRows(rows, t.val, current_version + 1)
        /\ clock' = clock + 1
        /\ IF rows = {}
           THEN /\ procs' = [procs EXCEPT ![p].pc = "ua_refresh"]
                /\ UNCHANGED lastWriter
           ELSE /\ procs' = [procs EXCEPT ![p] = [@ EXCEPT
                        !.pc = "ua_ret",
                        !.mem = [t.mem EXCEPT !.version = current_version + 1,
                                              !.last_availability_check = Now,
                                              !.earliest_available_unix = t.val],
                        !.wrote = @ + 1]]
                /\ lastWriter' = [lastWriter EXCEPT ![t.uid] = p]
        /\ UNCHANGED <<clientVars, ledgerVars, dbFaults, cache, calc>>

\* Expert.update_availability, rows_updated == 0: self.refresh_from_db(), which
\* raises when the row is gone
RefreshFromDb(p) ==
    LET t == procs[p]
    IN  /\ t.pc = "ua_refresh"
        /\ procs' = [procs EXCEPT ![p] =
                        IF t.uid \in DOMAIN experts
                        THEN [@ EXCEPT !.pc = "ua_retry", !.mem = experts[t.uid]]
                        ELSE [@ EXCEPT !.pc = "ua_raised"]]
        /\ UNCHANGED <<storeVars, clientVars, ledgerVars, dbFaults, cache, calc>>

\* Expert.update_availability, the retry: an update filtered on bubble_uid only
UpdateAvailabilityRetry_SavesCopy(p) ==
    LET t == procs[p]
        rows == FilterUid(t.uid)
    IN  /\ t.pc = "ua_retry"
        /\ experts' = [u \in DOMAIN experts |->
                          IF u \in rows
                          THEN [t.mem EXCEPT !.last_availability_check = Now,
                                             !.earliest_available_unix = t.val,
                                             !.version = t.mem.version + 1]
                          ELSE experts[u]]
        /\ clock' = clock + 1
        /\ procs' = [procs EXCEPT ![p] = [@ EXCEPT
                        !.pc = "ua_ret",
                        !.wrote = IF rows = {} THEN @ ELSE @ + 1]]
        /\ lastWriter' = IF rows = {} THEN lastWriter
                         ELSE [lastWriter EXCEPT ![t.uid] = p]
        /\ UNCHANGED <<clientVars, ledgerVars, dbFaults, cache, calc>>
UpdateAvailabilityRetry(p) ==
    LET t == procs[p]
        rows == FilterUid(t.uid)
    IN  /\ t.pc = "ua_retry"
        /\ experts' = UpdateRows(rows, t.val, t.mem.version + 1)
        /\ clock' = clock + 1
        /\ procs' = [procs EXCEPT ![p] = [@ EXCEPT
                        !.pc = "ua_ret",
                        !.wrote = IF rows = {} THEN @ ELSE @ + 1]]
        /\ lastWriter' = IF rows = {} THEN lastWriter
                         ELSE [lastWriter EXCEPT ![t.uid] = p]
        /\ UNCHANGED <<clientVars, ledgerVars, dbFaults, cache, calc>>

\* PUT /experts/{bubble_uid}: Expert.get_by_bubble_uid inside the transaction
PutGet(p, u, inp) ==
    /\ CanStart(p)
    /\ u \in DOMAIN experts
    /\ procs' = [procs EXCEPT ![p] = [@ EXCEPT !.kind = "put", !.pc = "put_clear",
                                        !.uid = u, !.mem = experts[u],
                                        !.v0 = experts[u].version,
                                        !.inp = [NoInput EXCEPT
                                            !.cronofy_id = inp.cronofy_id,
                                            !.calendar_ids = inp.calendar_ids]]]
    /\ UNCHANGED <<storeVars, clientVars, ledgerVars, dbFaults, cache, calc>>

\* PUT /experts/{bubble_uid}: cache.clear(), which the route awaits inside the
\* transaction, after save() and before the commit
PutClearCache(p) ==
    /\ procs[p].pc = "put_clear"
    /\ cache' = << >>
    /\ procs' = [procs EXCEPT ![p].pc = "put_save"]
    /\ UNCHANGED <<storeVars, clientVars, ledgerVars, dbFaults, calc>>

\* PUT /experts/{bubble_uid}: expert.version += 1 and
\* save(update_fields=[cronofy_id, calendar_ids, updated_at, version]), as the
\* other connections see it: when the transaction commits
PutSave(p) ==
    LET t == procs[p]
        saved == [t.mem EXCEPT !.cronofy_id = t.inp.cronofy_id,
                               !.calendar_ids = t.inp.calendar_ids,
                               !.version = @ + 1]
    IN  /\ t.pc = "put_save"
        /\ t.uid \in DOMAIN experts
        /\ ~CronofyTaken(experts, t.inp.cronofy_id, t.uid)
        /\ experts' = [experts EXCEPT ![t.uid] = [@ EXCEPT
                            !.cronofy_id = saved.cronofy_id,
                            !.calendar_ids = saved.calendar_ids,
                            !.version = saved.version]]
        /\ procs' = [procs EXCEPT ![p] = [@ EXCEPT !.pc = "put_ret", !.mem = saved,
                                                   !.wrote = @ + 1]]
        /\ lastWriter' = [lastWriter EXCEPT ![t.uid] = p]
        /\ UNCHANGED <<clock, clientVars, ledgerVars, dbFaults, cache, calc>>

\* ExpertService.bulk_upsert_experts: Expert.filter(bubble_uid__in=...) inside the
\* transaction; the submission holds one entry, for an expert that exists
BulkLoad(p, u, inp) ==
    /\ CanStart(p)
    /\ u \in DOMAIN experts
    /\ procs' = [procs EXCEPT ![p] = [@ EXCEPT !.kind = "bulk", !.pc = "bulk_save",
                                        !.uid = u, !.mem = experts[u],
                                        !.v0 = experts[u].version, !.inp = inp]]
    /\ UNCHANGED <<storeVars, clientVars, ledgerVars, dbFaults, cache, calc>>

\* ExpertService.bulk_upsert_experts: existing_expert.version += 1 and
\* save(update_fields=[expert_name, cronofy_id, calendar_ids, updated_at, version])
BulkSave(p) ==
    LET t == procs[p]
        saved == [t.mem EXCEPT !.expert_name = t.inp.expert_name,
                               !.cronofy_id = t.inp.cronofy_id,
                               !.calendar_ids = t.inp.calendar_ids,
                               !.version = @ + 1]
    IN  /\ t.pc = "bulk_save"
        /\ t.uid \in DOMAIN experts
        /\ experts' = [experts EXCEPT ![t.uid] = [@ EXCEPT
                            !.expert_name = saved.expert_name,
                            !.cronofy_id = saved.cronofy_id,
                            !.calendar_ids = saved.calendar_ids,
                            !.version = saved.version]]
        /\ procs' = [procs EXCEPT ![p] = [@ EXCEPT !.pc = "bulk_clear", !.mem = saved,
                                                   !.wrote = @ + 1]]
        /\ lastWriter' = [lastWriter EXCEPT ![t.uid] = p]
        /\ UNCHANGED <<clock, clientVars, ledgerVars, dbFaults, cache, calc>>

\* POST /experts/calendars: cache.clear() after bulk_upsert_experts has returned
\* (its transaction has committed), then the response
BulkClearCache(p) ==
    /\ procs[p].pc = "bulk_clear"
    /\ cache' = << >>
    /\ procs' = [procs EXCEPT ![p].pc = "bulk_ret"]
    /\ UNCHANGED <<storeVars, clientVars, ledgerVars, dbFaults, calc>>

----------------------------------------------------------------------------
\* Cronofy client

Min(a, b) == IF a < b THEN a ELSE b

Pow2(n) == IF n = 0 THEN 1 ELSE IF n = 1 THEN 2 ELSE IF n = 2 THEN 4 ELSE 8

\* what the client reads of an expert of a batch (Expert or DummyExpert)
Member(u, cronofy) == [bubble_uid |-> u, cronofy_id |-> cronofy]

\* the AvailabilityData list of the token guard and of the except branch:
\* earliest_available_unix=None for every expert of the batch; error keeps its
\* default, None: nothing in the client assigns it
EmptyAvailability(batch) ==
    [i \in 1..Len(batch) |->
        [expert_id |-> batch[i].cronofy_id, earliest_available_unix |-> Null,
         error |-> NoText]]

\* The "start" of a slot is an ISO 8601 string, "2026-01-01THH:00:00" followed
\* by "Z" or by a UTC offset "+hh:00" / "-hh:00". It is modelled by the hour of
\* its wall-clock part and the hours of its offset (0 for "Z")
UtcStart(t) == [wall |-> t, offset |-> 0]

\* a slot without a "start" key: x.get("start", "") is the empty string
NoStart == [wall |-> Null, offset |-> 0]

\* the rank of the suffix of a start string in the order of str: "+" (0x2B)
\* is before "-" (0x2D), which is before "Z" (0x5A); the digits after the sign
\* are in the order of their value
SuffixRank(offset) ==
    IF offset > 0 THEN <<1, offset>>
    ELSE IF offset < 0 THEN <<2, 0 - offset>>
    ELSE <<3, 0>>

\* a < b for two start strings, as list.sort compares its keys: the wall-clock
\* parts have the same width and are compared first ("" is before everything),
\* then the suffixes
StrLess(a, b) ==
    \/ a.wall < b.wall
    \/ /\ a.wall = b.wall
       /\ \/ SuffixRank(a.offset)[1] < SuffixRank(b.offset)[1]
          \/ /\ SuffixRank(a.offset)[1] = SuffixRank(b.offset)[1]
             /\ SuffixRank(a.offset)[2] < SuffixRank(b.offset)[2]

\* int(datetime.fromisoformat(start.replace('Z', '+00:00')).timestamp()), in
\* hours: the wall-clock time minus the offset
Timestamp(start) == start.wall - start.offset

\* find_earliest_available_slot_from_response: the slots that list the expert's
\* sub as a participant, sorted by their start strings (the sort is stable),
\* the timestamp of the first one's start, None when it has no start
FindEarliest(response, sub) ==
    LET expert_slots == {i \in 1..Len(response) : sub \in response[i].participants}
        first == CHOOSE i \in expert_slots :
                    \A j \in expert_slots \ {i} :
                        \/ StrLess(response[i].start, response[j].start)
                        \/ /\ ~StrLess(response[j].start, response[i].start)
                           /\ i < j
    IN  IF expert_slots = {} THEN Null
        ELSE IF response[first].start = NoStart THEN Null
        ELSE Timestamp(response[first].start)

\* fetch_experts_availability_batch, "Process results for each expert"
ProcessResults_OnlyWithSlots(batch, response) ==
    LET found == SelectSeq(batch, LAMBDA expert :
                        FindEarliest(response, expert.cronofy_id) # Null)
    IN  [i \in 1..Len(found) |->
            [expert_id |-> found[i].cronofy_id,
             earliest_available_unix |-> FindEarliest(response, found[i].cronofy_id),
             error |-> NoText]]
ProcessResults(batch, response) ==
    [i \in 1..Len(batch) |->
        [expert_id |-> batch[i].cronofy_id,
         earliest_available_unix |-> FindEarliest(response, batch[i].cronofy_id),
         error |-> NoText]]

\* available_slots of a 2xx response to the request for a batch: none; one slot
\* per expert; one per expert but the last; two for the first, the later one first
SlotLists(batch) ==
    LET slot(i, t) == [start |-> UtcStart(t), participants |-> {batch[i].cronofy_id}]
    IN  IF batch = <<>> THEN { <<>> }
        ELSE { <<>>,
               [i \in 1..Len(batch) |-> slot(i, 1)],
               [i \in 1..(Len(batch) - 1) |-> slot(i, 1)],
               <<slot(1, 2), slot(1, 1)>> }

\* how one HTTP request can end
HttpOutcomes == {"ok", "timeout", "connect", "5xx", "4xx"}

\* the exception fetch_cronofy_availability raises for a failed request: the
\* 5xx HTTPStatusError is re-raised as it is, httpx.TimeoutException is replaced
\* by a plain Exception, a 4xx raises a plain Exception, anything else is re-raised
RaisedException(outcome) ==
    CASE outcome = "5xx" -> "HTTPStatusError"
      [] outcome = "timeout" -> "Exception"
      [] outcome = "4xx" -> "Exception"
      [] outcome = "connect" -> "ConnectError"
      [] OTHER -> "ValueError"

\* except exceptions of retry_with_exponential_backoff, with the tuple given to
\* with_retry: TimeoutException (and its subclass ConnectTimeout), HTTPStatusError
IsRetried_AnyException(exc) == exc = exc
IsRetried(exc) == exc \in {"TimeoutException", "ConnectTimeout", "HTTPStatusError"}

\* retry_with_exponential_backoff re-raises "if attempt >= max_retries": a
\* retry is left while attempt < max_retries
RetriesLeft_OneMore(attempt) == attempt <= MaxRetries
RetriesLeft(attempt) == attempt < MaxRetries

\* delay = min(base_delay * exponential_factor ** attempt, max_delay), then
\* delay * (0.5 + random() * 0.5): at least half the delay. asyncio.sleep returns
\* no earlier than asked and a task wakes any time after its timer has run out,
\* so a longer jittered delay is the shortest one waking later
BackoffDelay(attempt) ==
    LET delay == Min(BaseDelay * Pow2(attempt), MaxDelay)
    IN  delay \div 2

\* fetch_experts_availability_batch without its token guard: the call goes on to
\* fetch_cronofy_availability whatever the settings hold
FetchBatchCall_NoTokenGuard(p) ==
    LET t == procs[p]
    IN  /\ t.pc = "fb_call"
        /\ IF Len(t.batch) > MaxExpertsPerRequest
           THEN procs' = [procs EXCEPT ![p] = [@ EXCEPT !.pc = "fb_raised",
                                                      !.outcome = "too_many"]]
           ELSE procs' = [procs EXCEPT ![p] = [@ EXCEPT !.pc = "rw_attempt",
                                                      !.attempt = 0]]
        /\ UNCHANGED <<storeVars, clientVars, ledgerVars, dbFaults, cache, calc>>

\* fetch_experts_availability_batch up to its first await: the size check, the
\* token guard, then the call of fetch_cronofy_availability
FetchBatchCall(p) ==
    LET t == procs[p]
    IN  /\ t.pc = "fb_call"
        /\ IF Len(t.batch) > MaxExpertsPerRequest
           THEN procs' = [procs EXCEPT ![p] = [@ EXCEPT !.pc = "fb_raised",
                                                      !.outcome = "too_many"]]
           ELSE IF ~token
           THEN procs' = [procs EXCEPT ![p] = [@ EXCEPT
                                !.pc = "fb_ret",
                                !.results = EmptyAvailability(t.batch)]]
           ELSE procs' = [procs EXCEPT ![p] = [@ EXCEPT !.pc = "rw_attempt",
                                                      !.attempt = 0]]
        /\ UNCHANGED <<storeVars, clientVars, ledgerVars, dbFaults, cache, calc>>

\* the task sends the HTTP request: _last_request_time = time.time(), client.post
SendRequest(p) ==
    /\ sinceLast' = 0
    /\ gap' = sinceLast
    /\ procs' = [procs EXCEPT ![p] = [@ EXCEPT !.pc = "http_wait", !.timer = 0,
                                              !.posts = @ + 1]]
    /\ UNCHANGED token

\* one attempt of the retry loop: fetch_cronofy_availability up to its first
\* suspension: the token check, then _rate_limit, which either sleeps the
\* remainder of the interval or lets the request go at once
Attempt(p) ==
    LET t == procs[p]
    IN  /\ t.pc = "rw_attempt"
        /\ IF ~token
           THEN /\ procs' = [procs EXCEPT ![p] = [@ EXCEPT
                                !.pc = "fb_ret", !.outcome = "no_token",
                                !.results = EmptyAvailability(t.batch)]]
                /\ UNCHANGED clientVars
           ELSE IF sinceLast < MinRequestInterval
           THEN /\ procs' = [procs EXCEPT ![p] = [@ EXCEPT
                                !.pc = "rl_sleep",
                                !.timer = MinRequestInterval - sinceLast]]
                /\ UNCHANGED clientVars
           ELSE SendRequest(p)
        /\ UNCHANGED <<storeVars, ledgerVars, dbFaults, cache, calc>>

\* _rate_limit after asyncio.sleep(wait_time) has returned
RateLimitWake(p) ==
    /\ procs[p].pc = "rl_sleep"
    /\ procs[p].timer = 0
    /\ SendRequest(p)
    /\ UNCHANGED <<storeVars, ledgerVars, dbFaults, cache, calc>>

\* the HTTP request ends: a 2xx response is reconciled per expert; a failure is
\* raised, retried by retry_with_exponential_backoff when its class is listed
\* and retries are left, and otherwise caught by fetch_experts_availability_batch,
\* which returns null availability for every expert
HttpResponse(p, outcome, response) ==
    LET t == procs[p]
    IN  /\ t.pc = "http_wait"
        /\ IF outcome = "ok"
           THEN procs' = [procs EXCEPT ![p] = [@ EXCEPT
                                !.pc = "fb_ret", !.outcome = "ok",
                                !.results = ProcessResults(t.batch, response)]]
           ELSE IF IsRetried(RaisedException(outcome)) /\ RetriesLeft(t.attempt)
           THEN procs' = [procs EXCEPT ![p] = [@ EXCEPT
                                !.pc = "backoff", !.outcome = outcome,
                                !.timer = BackoffDelay(t.attempt)]]
           ELSE procs' = [procs EXCEPT ![p] = [@ EXCEPT
                                !.pc = "fb_ret", !.outcome = outcome,
                                !.results = EmptyAvailability(t.batch)]]
        /\ UNCHANGED <<storeVars, clientVars, ledgerVars, dbFaults, cache, calc>>

\* retry_with_exponential_backoff after asyncio.sleep(delay): the next attempt
BackoffWake(p) ==
    /\ procs[p].pc = "backoff"
    /\ procs[p].timer = 0
    /\ procs' = [procs EXCEPT ![p] = [@ EXCEPT !.pc = "rw_attempt",
                                              !.attempt = @ + 1]]
    /\ UNCHANGED <<storeVars, clientVars, ledgerVars, dbFaults, cache, calc>>

\* half a second passes: every sleeping task's remaining time goes down
Tick ==
    /\ \/ sinceLast < MinRequestInterval
       \/ \E p \in Pids : procs[p].timer > 0
    /\ sinceLast' = Min(sinceLast + 1, MinRequestInterval)
    /\ procs' = [p \in Pids |->
                    IF procs[p].timer > 0
                    THEN [procs[p] EXCEPT !.timer = @ - 1]
                    ELSE procs[p]]
    /\ UNCHANGED <<storeVars, token, gap, ledgerVars, dbFaults, cache, calc>>

----------------------------------------------------------------------------
\* Concurrent writers on one expert record

InitStore ==
    /\ \E v \in 0..MaxInitVersion :
          experts = [u \in {StoreUid} |->
                        [NewRow("expert", 100, <<"calA">>) EXCEPT !.version = v]]
    /\ clock = 0
    /\ procs = [p \in 1..NumWriters |-> IdleTask]
    /\ lastWriter = [u \in {StoreUid} |-> 0]
    /\ token = TRUE
    /\ sinceLast = MinRequestInterval
    /\ gap = MinRequestInterval
    /\ errors = [u \in {StoreUid} |-> <<>>]
    /\ lastLogger = [u \in {StoreUid} |-> 0]
    /\ dbFaults = 0
    /\ cache = << >>
    /\ calc = NoCall

NextStore ==
    \/ \E p \in Pids, val \in AvailValues : LoadExpert(p, StoreUid, val)
    \/ \E p \in Pids : UpdateAvailabilityFirst(p)
    \/ \E p \in Pids : RefreshFromDb(p)
    \/ \E p \in Pids : UpdateAvailabilityRetry(p)
    \/ \E p \in Pids, inp \in UpdateInputs : PutGet(p, StoreUid, inp)
    \/ \E p \in Pids : PutClearCache(p)
    \/ \E p \in Pids : PutSave(p)
    \/ \E p \in Pids, inp \in UpsertInputs : BulkLoad(p, StoreUid, inp)
    \/ \E p \in Pids : BulkSave(p)
    \/ \E p \in Pids : BulkClearCache(p)

SpecStore == InitStore /\ [][NextStore]_vars

----------------------------------------------------------------------------
\* Concurrent callers of the Cronofy client

\* number of tasks that call the client concurrently
NumClients == 2

\* the batch a caller asks for: the first caller a batch of two experts (as the
\* full pass does), every other caller one expert (fetch_expert_availability)
ClientBatch(p) ==
    IF p = 1 THEN <<Member(1, 100), Member(2, 200)>> ELSE <<Member(p + 1, 100 * (p + 1))>>

\* a caller enters fetch_experts_availability_batch
CallFetchBatch(p) ==
    /\ procs[p].pc = "idle"
    /\ procs' = [procs EXCEPT ![p] = [@ EXCEPT !.kind = "client", !.pc = "fb_call",
                                              !.batch = ClientBatch(p)]]
    /\ UNCHANGED <<storeVars, clientVars, ledgerVars, dbFaults, cache, calc>>

InitClient ==
    /\ experts = << >>
    /\ clock = 0
    /\ lastWriter = << >>
    /\ procs = [p \in 1..NumClients |-> IdleTask]
    /\ token \in BOOLEAN
    /\ sinceLast = MinRequestInterval
    /\ gap = MinRequestInterval
    /\ errors = << >>
    /\ lastLogger = << >>
    /\ dbFaults = 0
    /\ cache = << >>
    /\ calc = NoCall

NextClient ==
    \/ \E p \in Pids : CallFetchBatch(p)
    \/ \E p \in Pids : FetchBatchCall(p)
    \/ \E p \in Pids : Attempt(p)
    \/ \E p \in Pids : RateLimitWake(p)
    \/ \E p \in Pids, outcome \in HttpOutcomes :
          \E response \in (IF outcome = "ok" THEN SlotLists(procs[p].batch) ELSE {<<>>}) :
              HttpResponse(p, outcome, response)
    \/ \E p \in Pids : BackoffWake(p)
    \/ Tick

SpecClient == InitClient /\ [][NextClient]_vars

----------------------------------------------------------------------------
\* Table "availability_errors" (the Error Ledger)

\* a row as AvailabilityError.log_error creates it (melbourne_time is the same
\* instant as unix_timestamp in another notation and is left out)
ErrorRow(name, cronofy, reason, details, stamp) ==
    [expert_name |-> name, cronofy_id |-> cronofy, error_reason |-> reason,
     error_details |-> details, unix_timestamp |-> stamp]

\* an INSERT that no primary key stops
PrimaryKeyFree_Unchecked(rows) == rows = rows

\* bubble_uid is the primary key: an INSERT is accepted only when no row holds it
PrimaryKeyFree(rows) == rows = <<>>

\* AvailabilityError.filter(bubble_uid=u).delete()
DeleteErrors(u) == [errors EXCEPT ![u] = <<>>]

\* AvailabilityError.log_error up to the answer of get_or_create's first query:
\* now = datetime.now(), then the SELECT by bubble_uid
LogErrorCall(p) ==
    LET t == procs[p]
    IN  /\ t.pc = "le_call"
        /\ clock' = clock + 1
        /\ procs' = [procs EXCEPT ![p] = [@ EXCEPT
                        !.ts = Now,
                        !.pc = IF errors[t.uid] = <<>> THEN "le_create" ELSE "le_save"]]
        /\ UNCHANGED <<experts, lastWriter, clientVars, ledgerVars, dbFaults, cache, calc>>

\* AvailabilityError.log_error, its write. When get_or_create found no row: the
\* INSERT with the defaults; when the key has been taken since the SELECT the
\* database refuses it (IntegrityError) and get_or_create reads the row again,
\* or raises when that read is not possible. When a row was found ("if not
\* created"): error_record.save(update_fields=[error_reason, error_details,
\* unix_timestamp, melbourne_time, updated_at]), an UPDATE by primary key
LogErrorWrite(p) ==
    LET t == procs[p]
        rows == errors[t.uid]
    IN  /\ t.pc \in {"le_create", "le_save"}
        /\ IF t.pc = "le_create" /\ PrimaryKeyFree(rows)
           THEN /\ errors' = [errors EXCEPT ![t.uid] = Append(@,
                                ErrorRow(t.mem.expert_name, t.mem.cronofy_id,
                                         t.reason, t.details, t.ts))]
                /\ lastLogger' = [lastLogger EXCEPT ![t.uid] = p]
                /\ procs' = [procs EXCEPT ![p] = [@ EXCEPT !.pc = "le_ret",
                                                          !.logged = "created"]]
           ELSE IF t.pc = "le_create"
           THEN /\ \E next \in {"le_save", "le_raised"} :
                      procs' = [procs EXCEPT ![p] = [@ EXCEPT
                                    !.pc = next,
                                    !.logged = IF next = "le_raised" THEN "raised"
                                               ELSE @]]
                /\ UNCHANGED ledgerVars
           ELSE /\ errors' = [errors EXCEPT ![t.uid] =
                                [k \in 1..Len(rows) |->
                                    [rows[k] EXCEPT !.error_reason = t.reason,
                                                    !.error_details = t.details,
                                                    !.unix_timestamp = t.ts]]]
                /\ lastLogger' = IF rows = <<>> THEN lastLogger
                                 ELSE [lastLogger EXCEPT ![t.uid] = p]
                /\ procs' = [procs EXCEPT ![p] = [@ EXCEPT !.pc = "le_ret",
                                                          !.logged = "updated"]]
        /\ UNCHANGED <<storeVars, clientVars, dbFaults, cache, calc>>

----------------------------------------------------------------------------
\* Concurrent callers of the Error Ledger

\* number of tasks that call the ledger concurrently for one UID
NumLoggers == 3

\* what a caller logs: the reason and the details
LogInputs == { [reason |-> "API error", details |-> NoText],
               [reason |-> "Processing error", details |-> "OperationalError"] }

\* a caller enters AvailabilityError.log_error for an expert it holds
CallLogError(p, u, inp) ==
    /\ CanStart(p)
    /\ procs' = [procs EXCEPT ![p] = [@ EXCEPT
                    !.kind = "log", !.pc = "le_call", !.uid = u,
                    !.mem = NewRow("expert", 100, <<"calA">>),
                    !.reason = inp.reason, !.details = inp.details]]
    /\ UNCHANGED <<storeVars, clientVars, ledgerVars, dbFaults, cache, calc>>

\* AvailabilityError.clear_error
ClearError(p, u) ==
    /\ CanStart(p)
    /\ errors' = DeleteErrors(u)
    /\ lastLogger' = [lastLogger EXCEPT ![u] = 0]
    /\ procs' = [procs EXCEPT ![p] = [@ EXCEPT !.kind = "clear", !.pc = "ce_ret",
                                              !.uid = u]]
    /\ UNCHANGED <<storeVars, clientVars, dbFaults, cache, calc>>

InitLedger ==
    /\ experts = << >>
    /\ clock = 0
    /\ lastWriter = << >>
    /\ procs = [p \in 1..NumLoggers |-> IdleTask]
    /\ token = TRUE
    /\ sinceLast = MinRequestInterval
    /\ gap = MinRequestInterval
    /\ errors = [u \in {StoreUid} |-> <<>>]
    /\ lastLogger = [u \in {StoreUid} |-> 0]
    /\ dbFaults = 0
    /\ cache = << >>
    /\ calc = NoCall

NextLedger ==
    \/ \E p \in Pids, inp \in LogInputs : CallLogError(p, StoreUid, inp)
    \/ \E p \in Pids : LogErrorCall(p)
    \/ \E p \in Pids : LogErrorWrite(p)
    \/ \E p \in Pids : ClearError(p, StoreUid)

SpecLedger == InitLedger /\ [][NextLedger]_vars

----------------------------------------------------------------------------
\* The full refresh pass and the single-expert refresh

\* CronofyService.batch_experts(experts, batch_size=10) in the pass
BatchSize == 10
\* asyncio.sleep(0.5) between two batches of the pass, in ticks
InterBatchDelay == 1

\* how an HTTP request can fail
FailedOutcomes == HttpOutcomes \ {"ok"}

\* bubble_uid of the DummyExpert of fetch_expert_availability ("temp_<cronofy_id>"):
\* the uid of no stored expert
TempUid == 0

\* len(expert_batches)
NumBatches_Floor(n) == n \div BatchSize
NumBatches(n) == (n + BatchSize - 1) \div BatchSize

\* seq[start:stop] of Python for 0 <= start <= stop: the elements at the 0-based
\* positions start .. stop-1 that exist
Slice_OneShort(seq, start, stop) == SubSeq(seq, start + 1, Min(stop - 1, Len(seq)))
Slice(seq, start, stop) == SubSeq(seq, start + 1, Min(stop, Len(seq)))

\* range(0, stop, step) of Python as a sequence, for step > 0
Range0(stop, step) ==
    LET count == CHOOSE c \in 0..stop : (c - 1) * step < stop /\ stop <= c * step
    IN  [k \in 1..count |-> (k - 1) * step]

\* batch_experts(experts, batch_size): one slice of batch_size experts for each
\* i of range(0, len(experts), batch_size)
BatchExperts(roster, batch_size) ==
    LET starts == Range0(Len(roster), batch_size)
    IN  [k \in 1..Len(starts) |-> Slice(roster, starts[k], starts[k] + batch_size)]

\* expert_batches[idx - 1] of the pass
BatchOf(roster, idx) == BatchExperts(roster, BatchSize)[idx]

\* the pass enters fetch_experts_availability_batch with its idx-th batch
EnterBatch(t, roster, idx) ==
    LET expert_batch == BatchOf(roster, idx)
    IN  [t EXCEPT !.roster = roster, !.idx = idx, !.i = 0,
                  !.batch = [k \in 1..Len(expert_batch) |->
                                Member(expert_batch[k].bubble_uid,
                                       expert_batch[k].row.cronofy_id)],
                  !.pc = "fb_call", !.outcome = "none", !.results = <<>>]

\* the pass enters expert.update_availability(availability.earliest_available_unix)
\* for the i-th pair of zip(expert_batch, availability_results)
EnterUpdate(t, i) ==
    LET expert == BatchOf(t.roster, t.idx)[i]
    IN  [t EXCEPT !.i = i, !.uid = expert.bubble_uid, !.mem = expert.row,
                  !.v0 = expert.row.version,
                  !.val = t.results[i].earliest_available_unix,
                  !.pc = "ua_call", !.attempt = 0, !.posts = 0]

\* the pass leaves a batch (its results and the call's retry state are dropped):
\* the next one after the sleep, or the Algolia update
LeaveBatch_NoPause(t, sleep) ==
    LET left == [t EXCEPT !.batch = <<>>, !.results = <<>>, !.outcome = "none",
                          !.attempt = 0, !.posts = 0]
    IN  IF t.idx < NumBatches(Len(t.roster))
        THEN EnterBatch(left, t.roster, t.idx + 1)
        ELSE [left EXCEPT !.pc = "pass_algolia"]
LeaveBatch(t, sleep) ==
    LET left == [t EXCEPT !.batch = <<>>, !.results = <<>>, !.outcome = "none",
                          !.attempt = 0, !.posts = 0]
    IN  IF t.idx < NumBatches(Len(t.roster))
        THEN IF sleep THEN [left EXCEPT !.pc = "pass_sleep", !.timer = InterBatchDelay]
             ELSE EnterBatch(left, t.roster, t.idx + 1)
        ELSE [left EXCEPT !.pc = "pass_algolia"]

\* "if not experts: ... return": the pass returns before it builds a batch
EmptyRosterReturn_FallsThrough(t) == [t EXCEPT !.pc = "pass_algolia"]
EmptyRosterReturn(t) == [t EXCEPT !.pc = "pass_empty"]

\* update_all_expert_availability up to its first provider call:
\* Expert.get_all_ordered() (the rows are stored in that order), the batches,
\* the counters, the call for the first batch
PassStart(p) ==
    LET t == procs[p]
        n == Cardinality(DOMAIN experts)
        roster == [k \in 1..n |-> [bubble_uid |-> k, row |-> experts[k]]]
    IN  /\ t.kind = "pass" /\ t.pc = "idle"
        /\ procs' = [procs EXCEPT ![p] =
                        IF n = 0 THEN EmptyRosterReturn(t)
                        ELSE EnterBatch([t EXCEPT !.processed = 0, !.failed = 0,
                                                  !.algolia = <<>>], roster, 1)]
        /\ UNCHANGED <<storeVars, clientVars, ledgerVars, dbFaults, cache, calc>>

\* the outer "except Exception" of update_all_expert_availability: the error is
\* logged and the function returns, without the report of the counts
PassOuterExcept_Reraises(t) == [t EXCEPT !.pc = "pass_raised"]
PassOuterExcept(t) == [t EXCEPT !.pc = "pass_error"]

\* the database refuses the query of Expert.get_all_ordered(): it raises inside
\* the outer try, before any batch
PassRosterFails(p) ==
    LET t == procs[p]
    IN  /\ t.kind = "pass" /\ t.pc = "idle"
        /\ dbFaults > 0
        /\ dbFaults' = dbFaults - 1
        /\ procs' = [procs EXCEPT ![p] = PassOuterExcept(t)]
        /\ UNCHANGED <<storeVars, clientVars, ledgerVars, cache, calc>>

\* fetch_experts_availability_batch has returned its results to the pass, or
\* has raised: the first pair of the zip, or the batch's except branch.
\* lost records the experts of the batches whose provider call failed
PassAfterFetch(p) ==
    LET t == procs[p]
    IN  /\ t.kind = "pass" /\ t.pc \in {"fb_ret", "fb_raised"}
        /\ procs' = [procs EXCEPT ![p] =
                        IF t.pc = "fb_raised"
                        THEN LeaveBatch([t EXCEPT !.failed = @ + Len(t.batch)], FALSE)
                        ELSE EnterUpdate(
                                [t EXCEPT !.lost =
                                    IF t.outcome \in FailedOutcomes
                                    THEN @ \cup {t.batch[k].bubble_uid :
                                                    k \in 1..Len(t.batch)}
                                    ELSE @], 1)]
        /\ UNCHANGED <<storeVars, clientVars, ledgerVars, dbFaults, cache, calc>>

\* the database refuses the update: update_availability raises
UpdateAvailabilityFails(p) ==
    /\ procs[p].pc = "ua_call"
    /\ dbFaults > 0
    /\ dbFaults' = dbFaults - 1
    /\ procs' = [procs EXCEPT ![p].pc = "ua_raised"]
    /\ UNCHANGED <<storeVars, clientVars, ledgerVars, cache, calc>>

\* update_availability has returned to the pass, or has raised: the Algolia
\* record and total_processed += 1, or total_failed += 1; then the next pair,
\* the sleep before the next batch, or the end of the loop
CountExpert_NullFails(t) ==
    IF t.pc = "ua_ret" /\ t.val # Null
    THEN [t EXCEPT !.algolia = Append(@, [objectID |-> t.uid,
                                          earliest_available_unix |-> t.val]),
                   !.processed = @ + 1]
    ELSE [t EXCEPT !.failed = @ + 1]
CountExpert(t) ==
    IF t.pc = "ua_ret"
    THEN [t EXCEPT !.algolia = Append(@, [objectID |-> t.uid,
                                          earliest_available_unix |-> t.val]),
                   !.processed = @ + 1]
    ELSE [t EXCEPT !.failed = @ + 1]

PassAfterUpdate_AbortsBatch(p) ==
    LET t == procs[p]
        counted == CountExpert(t)
    IN  /\ t.kind = "pass" /\ t.pc \in {"ua_ret", "ua_raised"}
        /\ procs' = [procs EXCEPT ![p] =
                        IF t.pc = "ua_raised"
                        THEN LeaveBatch([t EXCEPT !.failed = @ + Len(t.batch) - t.i + 1],
                                        FALSE)
                        ELSE IF t.i < Len(t.batch) THEN EnterUpdate(counted, t.i + 1)
                        ELSE LeaveBatch(counted, TRUE)]
        /\ UNCHANGED <<storeVars, clientVars, ledgerVars, dbFaults, cache, calc>>
PassAfterUpdate(p) ==
    LET t == procs[p]
        counted == CountExpert(t)
    IN  /\ t.kind = "pass" /\ t.pc \in {"ua_ret", "ua_raised"}
        /\ procs' = [procs EXCEPT ![p] =
                        IF t.i < Len(t.batch) THEN EnterUpdate(counted, t.i + 1)
                        ELSE LeaveBatch(counted, TRUE)]
        /\ UNCHANGED <<storeVars, clientVars, ledgerVars, dbFaults, cache, calc>>

\* asyncio.sleep(0.5) has returned: the next batch
PassSleepWake_SleepsAgain(p) ==
    LET t == procs[p]
    IN  /\ t.kind = "pass" /\ t.pc = "pass_sleep" /\ t.timer = 0
        /\ procs' = [procs EXCEPT ![p].timer = InterBatchDelay]
        /\ UNCHANGED <<storeVars, clientVars, ledgerVars, dbFaults, cache, calc>>
PassSleepWake(p) ==
    LET t == procs[p]
    IN  /\ t.kind = "pass" /\ t.pc = "pass_sleep" /\ t.timer = 0
        /\ procs' = [procs EXCEPT ![p] = EnterBatch(t, t.roster, t.idx + 1)]
        /\ UNCHANGED <<storeVars, clientVars, ledgerVars, dbFaults, cache, calc>>

\* algolia_service.update_expert_records(algolia_updates), which returns True,
\* or False when the index is not configured or partial_update_objects raised;
\* the pass drops the value; then the report of the counts. pushed is what the
\* index has received
PassAlgolia(p, sent) ==
    /\ procs[p].kind = "pass" /\ procs[p].pc = "pass_algolia"
    /\ sent \in BOOLEAN
    /\ procs' = [procs EXCEPT ![p] = [@ EXCEPT
                    !.pc = "pass_done",
                    !.sink = IF sent THEN "updated" ELSE "skipped",
                    !.pushed = IF sent THEN procs[p].algolia ELSE <<>>]]
    /\ UNCHANGED <<storeVars, clientVars, ledgerVars, dbFaults, cache, calc>>

\* log_error(bubble_uid, expert_name, cronofy_id, error_reason, error_details)
\* is entered by a route
EnterLogError(t, reason, details) ==
    [t EXCEPT !.pc = "le_call", !.reason = reason, !.details = details]

\* the route returns its response: the provider call's results and retry state
\* are dropped
RouteReturns(t, pc) ==
    [t EXCEPT !.pc = pc, !.batch = <<>>, !.results = <<>>, !.outcome = "none"]

\* POST /refresh-availability/{bubble_uid} up to its provider call:
\* Expert.get_by_bubble_uid, 404 when there is none, fetch_expert_availability
RefreshGet(p, u) ==
    LET t == procs[p]
    IN  /\ t.kind = "refresh" /\ t.pc = "idle"
        /\ procs' = [procs EXCEPT ![p] =
                        IF u \notin DOMAIN experts THEN [t EXCEPT !.pc = "rf_404"]
                        ELSE [t EXCEPT !.uid = u, !.mem = experts[u],
                                       !.v0 = experts[u].version,
                                       !.batch = <<Member(TempUid, experts[u].cronofy_id)>>,
                                       !.pc = "fb_call", !.outcome = "none"]]
        /\ UNCHANGED <<storeVars, clientVars, ledgerVars, dbFaults, cache, calc>>

\* fetch_expert_availability has returned batch_results[0] to the route: with an
\* error in it the route logs it; otherwise clear_error, old_timestamp, and the
\* call of update_availability
RefreshAfterFetch(p) ==
    LET t == procs[p]
        availability == t.results[1]
    IN  /\ t.kind = "refresh" /\ t.pc = "fb_ret"
        /\ IF availability.error # NoText
           THEN /\ procs' = [procs EXCEPT ![p] =
                                EnterLogError(t, availability.error, NoText)]
                /\ UNCHANGED ledgerVars
           ELSE /\ errors' = DeleteErrors(t.uid)
                /\ lastLogger' = [lastLogger EXCEPT ![t.uid] = 0]
                /\ procs' = [procs EXCEPT ![p] = [t EXCEPT
                                !.old = t.mem.earliest_available_unix,
                                !.val = availability.earliest_available_unix,
                                !.pc = "ua_call", !.attempt = 0, !.posts = 0]]
        /\ UNCHANGED <<storeVars, clientVars, dbFaults, cache, calc>>

\* update_availability has returned to the route (200), or has raised: the
\* except branch logs a "Processing error"
RefreshAfterUpdate(p) ==
    LET t == procs[p]
    IN  /\ t.kind = "refresh" /\ t.pc \in {"ua_ret", "ua_raised"}
        /\ procs' = [procs EXCEPT ![p] =
                        IF t.pc = "ua_ret" THEN RouteReturns(t, "rf_ret")
                        ELSE EnterLogError(t, "Processing error", "OperationalError")]
        /\ UNCHANGED <<storeVars, clientVars, ledgerVars, dbFaults, cache, calc>>

\* the body of the route's 200 after update_availability returned
RefreshResponse(t) ==
    [old_timestamp |-> t.old,
     new_timestamp |-> t.val,
     timestamp_changed |-> t.old # t.val]

\* log_error has returned to the route, or has raised. After a provider error
\* (the call is inside a try): the 200 that reports the failure with its reason
\* and details. In the except branch (the call is not inside a try): the 500
\* when log_error returned, and its exception leaves the route when it raised
RefreshAfterLog(p) ==
    LET t == procs[p]
    IN  /\ t.kind = "refresh" /\ t.pc \in {"le_ret", "le_raised"}
        /\ procs' = [procs EXCEPT ![p] =
                        RouteReturns(t, IF t.reason # "Processing error" THEN "rf_failed"
                                        ELSE IF t.pc = "le_ret" THEN "rf_500"
                                        ELSE "rf_unhandled")]
        /\ UNCHANGED <<storeVars, clientVars, ledgerVars, dbFaults, cache, calc>>

\* number of experts stored when the pass runs
RosterSize == 12
\* database errors the expert store raises at most
MaxDbFaults == 1

\* the tasks of the sync engine: the scheduled pass and one manual refresh
SyncTasks == <<"pass", "refresh">>

\* the expert a manual refresh is asked for: the last of the last batch
RefreshTargets == {RosterSize}

\* how a request of the sync engine ends: a 2xx response, a failure that is not
\* retried, a failure that is
SyncOutcomes == {"ok", "timeout", "5xx"}

\* available_slots of a 2xx response: one slot per expert of the batch, or one
\* per expert but the last
SyncSlotLists(batch) ==
    LET slot(i) == [start |-> UtcStart(1), participants |-> {batch[i].cronofy_id}]
    IN  { [i \in 1..Len(batch) |-> slot(i)],
          [i \in 1..(Len(batch) - 1) |-> slot(i)] }

\* a stored expert that an earlier pass has found a slot for
RosterRow(u) ==
    [NewRow("expert", 100 * u, <<"calA">>) EXCEPT
        !.last_availability_check = 0, !.earliest_available_unix = 2, !.version = 1]

InitSync ==
    /\ \E n \in {0, RosterSize} : experts = [u \in 1..n |-> RosterRow(u)]
    /\ clock = 0
    /\ lastWriter = [u \in DOMAIN experts |-> 0]
    /\ procs = [p \in 1..Len(SyncTasks) |-> [IdleTask EXCEPT !.kind = SyncTasks[p]]]
    /\ token \in BOOLEAN
    /\ sinceLast = MinRequestInterval
    /\ gap = MinRequestInterval
    /\ errors = [u \in DOMAIN experts |-> <<>>]
    /\ lastLogger = [u \in DOMAIN experts |-> 0]
    /\ dbFaults = MaxDbFaults
    /\ cache = << >>
    /\ calc = NoCall

NextSync ==
    \/ \E p \in Pids : PassStart(p)
    \/ \E p \in Pids : PassRosterFails(p)
    \/ \E p \in Pids, u \in RefreshTargets : RefreshGet(p, u)
    \/ \E p \in Pids : FetchBatchCall(p)
    \/ \E p \in Pids : Attempt(p)
    \/ \E p \in Pids : RateLimitWake(p)
    \/ \E p \in Pids, outcome \in SyncOutcomes :
          \E response \in (IF outcome = "ok" THEN SyncSlotLists(procs[p].batch)
                           ELSE {<<>>}) :
              HttpResponse(p, outcome, response)
    \/ \E p \in Pids : BackoffWake(p)
    \/ Tick
    \/ \E p \in Pids : PassAfterFetch(p)
    \/ \E p \in Pids : RefreshAfterFetch(p)
    \/ \E p \in Pids : UpdateAvailabilityFirst(p)
    \/ \E p \in Pids : UpdateAvailabilityFails(p)
    \/ \E p \in Pids : RefreshFromDb(p)
    \/ \E p \in Pids : UpdateAvailabilityRetry(p)
    \/ \E p \in Pids : PassAfterUpdate(p)
    \/ \E p \in Pids : PassSleepWake(p)
    \/ \E p \in Pids, sent \in BOOLEAN : PassAlgolia(p, sent)
    \/ \E p \in Pids : RefreshAfterUpdate(p)
    \/ \E p \in Pids : LogErrorCall(p)
    \/ \E p \in Pids : LogErrorWrite(p)
    \/ \E p \in Pids : RefreshAfterLog(p)

SpecSync == InitSync /\ [][NextSync]_vars

----------------------------------------------------------------------------
\* One scheduled pass on its own, with every way a request can end, run by an
\* event loop that keeps resuming it

InitLive ==
    /\ \E n \in {0, RosterSize} : experts = [u \in 1..n |-> RosterRow(u)]
    /\ clock = 0
    /\ lastWriter = [u \in DOMAIN experts |-> 0]
    /\ procs = <<[IdleTask EXCEPT !.kind = "pass"]>>
    /\ token \in BOOLEAN
    /\ sinceLast = MinRequestInterval
    /\ gap = MinRequestInterval
    /\ errors = [u \in DOMAIN experts |-> <<>>]
    /\ lastLogger = [u \in DOMAIN experts |-> 0]
    /\ dbFaults = MaxDbFaults
    /\ cache = << >>
    /\ calc = NoCall

\* (a pass on its own never waits in _rate_limit: a backoff or the pause
\* between batches has passed since its last request)
NextLive ==
    \/ \E p \in Pids : PassStart(p)
    \/ \E p \in Pids : PassRosterFails(p)
    \/ \E p \in Pids : FetchBatchCall(p)
    \/ \E p \in Pids : Attempt(p)
    \/ \E p \in Pids, outcome \in HttpOutcomes :
          \E response \in (IF outcome = "ok" THEN SyncSlotLists(procs[p].batch)
                           ELSE {<<>>}) :
              HttpResponse(p, outcome, response)
    \/ \E p \in Pids : BackoffWake(p)
    \/ Tick
    \/ \E p \in Pids : PassAfterFetch(p)
    \/ \E p \in Pids : UpdateAvailabilityFirst(p)
    \/ \E p \in Pids : UpdateAvailabilityFails(p)
    \/ \E p \in Pids : PassAfterUpdate(p)
    \/ \E p \in Pids : PassSleepWake(p)
    \/ \E p \in Pids, sent \in BOOLEAN : PassAlgolia(p, sent)

\* the event loop resumes a coroutine that can run, every sleep ends and every
\* HTTP request returns or times out
SpecLive == InitLive /\ [][NextLive]_vars /\ WF_vars(NextLive)

----------------------------------------------------------------------------
\* The availability endpoint, the delete endpoints, and database errors of the
\* ledger

\* the database refuses a statement of log_error: log_error raises
LogErrorFails(p) ==
    /\ procs[p].pc = "le_call"
    /\ dbFaults > 0
    /\ dbFaults' = dbFaults - 1
    /\ procs' = [procs EXCEPT ![p] = [@ EXCEPT !.pc = "le_raised",
                                              !.logged = "raised"]]
    /\ UNCHANGED <<storeVars, clientVars, ledgerVars, cache, calc>>

\* the success branch of a route when the database refuses clear_error's DELETE:
\* the route catches the exception, logs it and goes on to update_availability
ClearErrorFails(p) ==
    LET t == procs[p]
    IN  /\ t.kind \in {"refresh", "avail"} /\ t.pc = "fb_ret"
        /\ t.results[1].error = NoText
        /\ dbFaults > 0
        /\ dbFaults' = dbFaults - 1
        /\ procs' = [procs EXCEPT ![p] = [t EXCEPT
                        !.old = t.mem.earliest_available_unix,
                        !.val = t.results[1].earliest_available_unix,
                        !.pc = "ua_call", !.attempt = 0, !.posts = 0,
                        !.logged = "raised"]]
        /\ UNCHANGED <<storeVars, clientVars, ledgerVars, cache, calc>>

\* GET /experts/{bubble_uid}/availability up to its provider call:
\* Expert.get_by_bubble_uid, 404 when there is none, fetch_expert_availability
AvailGet(p, u) ==
    LET t == procs[p]
    IN  /\ t.kind = "avail" /\ t.pc = "idle"
        /\ procs' = [procs EXCEPT ![p] =
                        IF u \notin DOMAIN experts
                        THEN [t EXCEPT !.uid = u, !.pc = "av_404"]
                        ELSE [t EXCEPT !.uid = u,
                                       !.mem = experts[u],
                                       !.v0 = experts[u].version,
                                       !.batch = <<Member(TempUid, experts[u].cronofy_id)>>,
                                       !.pc = "fb_call", !.outcome = "none"]]
        /\ UNCHANGED <<storeVars, clientVars, ledgerVars, dbFaults, cache, calc>>

\* fetch_expert_availability has returned to the availability endpoint: with
\* an error in it the endpoint logs it; otherwise clear_error and, the result
\* being an object, update_availability
AvailAfterFetch(p) ==
    LET t == procs[p]
        availability == t.results[1]
    IN  /\ t.kind = "avail" /\ t.pc = "fb_ret"
        /\ IF availability.error # NoText
           THEN /\ procs' = [procs EXCEPT ![p] =
                                EnterLogError(t, availability.error, NoText)]
                /\ UNCHANGED ledgerVars
           ELSE /\ errors' = DeleteErrors(t.uid)
                /\ lastLogger' = [lastLogger EXCEPT ![t.uid] = 0]
                /\ procs' = [procs EXCEPT ![p] = [t EXCEPT
                                !.val = availability.earliest_available_unix,
                                !.pc = "ua_call", !.attempt = 0, !.posts = 0]]
        /\ UNCHANGED <<storeVars, clientVars, dbFaults, cache, calc>>

\* update_availability has returned to the availability endpoint (200 with the
\* availability), or has raised: the except branch logs a "Processing error"
AvailAfterUpdate(p) ==
    LET t == procs[p]
    IN  /\ t.kind = "avail" /\ t.pc \in {"ua_ret", "ua_raised"}
        /\ procs' = [procs EXCEPT ![p] =
                        IF t.pc = "ua_ret" THEN RouteReturns(t, "av_ret")
                        ELSE EnterLogError(t, "Processing error", "OperationalError")]
        /\ UNCHANGED <<storeVars, clientVars, ledgerVars, dbFaults, cache, calc>>

\* log_error has returned to the availability endpoint, or has raised and the
\* endpoint has caught it: the 200 with the availability that carries the
\* error, or the 500 of the except branch
AvailAfterLog(p) ==
    LET t == procs[p]
    IN  /\ t.kind = "avail" /\ t.pc \in {"le_ret", "le_raised"}
        /\ procs' = [procs EXCEPT ![p] =
                        RouteReturns(t, IF t.reason = "Processing error"
                                        THEN "av_500" ELSE "av_ret")]
        /\ UNCHANGED <<storeVars, clientVars, ledgerVars, dbFaults, cache, calc>>

\* the fields an expert can be looked up by for deletion
LookupFields == {"bubble_uid", "cronofy_id"}

\* Expert.get_by_bubble_uid / Expert.get_by_cronofy_id: the stored uids that
\* hold the identifier in the lookup field
Lookup(field, ident) ==
    IF field = "bubble_uid" THEN {u \in DOMAIN experts : u = ident}
    ELSE {u \in DOMAIN experts : experts[u].cronofy_id = ident}

\* delete_expert_by_identifier up to the answer of its lookup, inside the
\* transaction: 404 when there is no such expert, else expert.delete() is issued
DeleteGet(p, field, ident) ==
    LET t == procs[p]
        found == Lookup(field, ident)
    IN  /\ t.kind = "delete" /\ t.pc = "idle"
        /\ procs' = [procs EXCEPT ![p] =
                        IF found = {}
                        THEN [t EXCEPT !.pc = "del_404"]
                        ELSE LET u == CHOOSE x \in found : TRUE
                             IN  [t EXCEPT !.uid = u, !.mem = experts[u],
                                           !.pc = "del_clear"]]
        /\ UNCHANGED <<storeVars, clientVars, ledgerVars, dbFaults, cache, calc>>

\* delete_expert_by_identifier: cache.clear(), still inside the transaction
DeleteClearCache(p) ==
    /\ procs[p].kind = "delete" /\ procs[p].pc = "del_clear"
    /\ cache' = << >>
    /\ procs' = [procs EXCEPT ![p].pc = "del_commit"]
    /\ UNCHANGED <<storeVars, clientVars, ledgerVars, dbFaults, calc>>

\* delete_expert_by_identifier: the transaction commits, the row is gone for
\* every reader; the endpoint returns
DeleteCommit(p) ==
    LET t == procs[p]
    IN  /\ t.kind = "delete" /\ t.pc = "del_commit"
        /\ experts' = [u \in DOMAIN experts \ {t.uid} |-> experts[u]]
        /\ procs' = [procs EXCEPT ![p].pc = "del_ret"]
        /\ UNCHANGED <<clock, lastWriter, clientVars, ledgerVars, dbFaults, cache, calc>>

\* number of requests the endpoints serve concurrently
NumRouteCalls == 2

\* the experts stored when the endpoints are called
RouteUids == {1, 2}

\* the endpoints a request can be for
RouteKinds == {"refresh", "avail", "delete"}

\* the identifiers a delete request can carry in the lookup field
DeleteIdents(field) ==
    IF field = "bubble_uid" THEN RouteUids
    ELSE {RosterRow(u).cronofy_id : u \in RouteUids}

InitRoutes ==
    /\ experts = [u \in RouteUids |-> RosterRow(u)]
    /\ clock = 0
    /\ lastWriter = [u \in RouteUids |-> 0]
    /\ procs \in [1..NumRouteCalls -> {[IdleTask EXCEPT !.kind = k] : k \in RouteKinds}]
    /\ token = TRUE
    /\ sinceLast = MinRequestInterval
    /\ gap = MinRequestInterval
    /\ errors = [u \in RouteUids |-> <<>>]
    /\ lastLogger = [u \in RouteUids |-> 0]
    /\ dbFaults = MaxDbFaults
    /\ cache = << >>
    /\ calc = NoCall

NextRoutes ==
    \/ \E p \in Pids, u \in RouteUids : RefreshGet(p, u)
    \/ \E p \in Pids, u \in RouteUids : AvailGet(p, u)
    \/ \E p \in Pids, field \in LookupFields :
          \E ident \in DeleteIdents(field) : DeleteGet(p, field, ident)
    \/ \E p \in Pids : FetchBatchCall(p)
    \/ \E p \in Pids : Attempt(p)
    \/ \E p \in Pids : RateLimitWake(p)
    \/ \E p \in Pids, outcome \in SyncOutcomes :
          \E response \in (IF outcome = "ok" THEN SyncSlotLists(procs[p].batch)
                           ELSE {<<>>}) :
              HttpResponse(p, outcome, response)
    \/ \E p \in Pids : BackoffWake(p)
    \/ Tick
    \/ \E p \in Pids : RefreshAfterFetch(p)
    \/ \E p \in Pids : AvailAfterFetch(p)
    \/ \E p \in Pids : ClearErrorFails(p)
    \/ \E p \in Pids : UpdateAvailabilityFirst(p)
    \/ \E p \in Pids : UpdateAvailabilityFails(p)
    \/ \E p \in Pids : RefreshFromDb(p)
    \/ \E p \in Pids : UpdateAvailabilityRetry(p)
    \/ \E p \in Pids : RefreshAfterUpdate(p)
    \/ \E p \in Pids : AvailAfterUpdate(p)
    \/ \E p \in Pids : LogErrorCall(p)
    \/ \E p \in Pids : LogErrorFails(p)
    \/ \E p \in Pids : LogErrorWrite(p)
    \/ \E p \in Pids : RefreshAfterLog(p)
    \/ \E p \in Pids : AvailAfterLog(p)
    \/ \E p \in Pids : DeleteClearCache(p)
    \/ \E p \in Pids : DeleteCommit(p)

SpecRoutes == InitRoutes /\ [][NextRoutes]_vars

----------------------------------------------------------------------------
\* The pass next to a manual refresh and a delete of one expert, with a
\* provider that answers every request with a 2xx

\* the tasks: the scheduled pass, one manual refresh, one delete
PushTasks == <<"pass", "refresh", "delete">>

InitPush ==
    /\ experts = [u \in 1..RosterSize |-> RosterRow(u)]
    /\ clock = 0
    /\ lastWriter = [u \in DOMAIN experts |-> 0]
    /\ procs = [p \in 1..Len(PushTasks) |-> [IdleTask EXCEPT !.kind = PushTasks[p]]]
    /\ token = TRUE
    /\ sinceLast = MinRequestInterval
    /\ gap = MinRequestInterval
    /\ errors = [u \in DOMAIN experts |-> <<>>]
    /\ lastLogger = [u \in DOMAIN experts |-> 0]
    /\ dbFaults = 0
    /\ cache = << >>
    /\ calc = NoCall

NextPush ==
    \/ \E p \in Pids : PassStart(p)
    \/ \E p \in Pids, u \in RefreshTargets : RefreshGet(p, u)
    \/ \E p \in Pids, ident \in RefreshTargets : DeleteGet(p, "bubble_uid", ident)
    \/ \E p \in Pids : FetchBatchCall(p)
    \/ \E p \in Pids : Attempt(p)
    \/ \E p \in Pids : RateLimitWake(p)
    \/ \E p \in Pids :
          \E response \in SyncSlotLists(procs[p].batch) :
              HttpResponse(p, "ok", response)
    \/ Tick
    \/ \E p \in Pids : PassAfterFetch(p)
    \/ \E p \in Pids : RefreshAfterFetch(p)
    \/ \E p \in Pids : UpdateAvailabilityFirst(p)
    \/ \E p \in Pids : RefreshFromDb(p)
    \/ \E p \in Pids : UpdateAvailabilityRetry(p)
    \/ \E p \in Pids : PassAfterUpdate(p)
    \/ \E p \in Pids : PassSleepWake(p)
    \/ \E p \in Pids, sent \in BOOLEAN : PassAlgolia(p, sent)
    \/ \E p \in Pids : RefreshAfterUpdate(p)
    \/ \E p \in Pids : LogErrorCall(p)
    \/ \E p \in Pids : LogErrorWrite(p)
    \/ \E p \in Pids : RefreshAfterLog(p)
    \/ \E p \in Pids : DeleteClearCache(p)
    \/ \E p \in Pids : DeleteCommit(p)

SpecPush == InitPush /\ [][NextPush]_vars

----------------------------------------------------------------------------
\* The cached listing of GET /experts/calendars and the endpoints that write
\* experts (SpecCache)

\* cache_key of the one page the readers ask for
ListKey == "experts_list_p1_l20"

\* ttl of a cached listing, in seconds
ListTtl == 60

\* PaginatedResponse.create(expert_data, total_count, pagination) for a page
\* that holds every expert
Page(items, total) == [items |-> items, total |-> total]

\* GET /experts/calendars: cache.get(cache_key), which drops an expired entry;
\* a hit is returned as it is
ListCacheGet(p) ==
    LET t == procs[p]
        hit == ListKey \in DOMAIN cache /\ ~(clock > cache[ListKey].expires_at)
    IN  /\ t.kind = "list" /\ t.pc = "idle"
        /\ cache' = IF ListKey \in DOMAIN cache /\ ~hit THEN << >> ELSE cache
        /\ procs' = [procs EXCEPT ![p] =
                        IF hit THEN [t EXCEPT !.pc = "list_ret",
                                              !.listing = cache[ListKey].value]
                        ELSE [t EXCEPT !.pc = "list_count"]]
        /\ UNCHANGED <<storeVars, clientVars, ledgerVars, dbFaults, calc>>

\* GET /experts/calendars: Expert.all().count()
ListCount(p) ==
    LET t == procs[p]
    IN  /\ t.kind = "list" /\ t.pc = "list_count"
        /\ procs' = [procs EXCEPT ![p] =
                        [t EXCEPT !.pc = "list_select",
                                  !.total = Cardinality(DOMAIN experts)]]
        /\ UNCHANGED <<storeVars, clientVars, ledgerVars, dbFaults, cache, calc>>

\* GET /experts/calendars: Expert.all().order_by('-updated_at').offset().limit()
\* and the response built from the rows and the count
ListSelect(p) ==
    LET t == procs[p]
    IN  /\ t.kind = "list" /\ t.pc = "list_select"
        /\ procs' = [procs EXCEPT ![p] =
                        [t EXCEPT !.pc = "list_set",
                                  !.listing = Page(experts, t.total)]]
        /\ UNCHANGED <<storeVars, clientVars, ledgerVars, dbFaults, cache, calc>>

\* GET /experts/calendars: cache.set(cache_key, response, ttl=60), then the
\* response
ListCacheSet(p) ==
    LET t == procs[p]
    IN  /\ t.kind = "list" /\ t.pc = "list_set"
        /\ cache' = (ListKey :> [value |-> t.listing, expires_at |-> clock + ListTtl])
        /\ procs' = [procs EXCEPT ![p] = [t EXCEPT !.pc = "list_ret", !.total = 0]]
        /\ UNCHANGED <<storeVars, clientVars, ledgerVars, dbFaults, calc>>

\* time passes until the cached listing has expired
TtlPasses ==
    /\ ListKey \in DOMAIN cache
    /\ ~(clock > cache[ListKey].expires_at)
    /\ clock' = cache[ListKey].expires_at + 1
    /\ UNCHANGED <<experts, lastWriter, procs, clientVars, ledgerVars, dbFaults,
                   cache, calc>>

\* number of concurrent requests: one that writes experts, the others readers
NumCacheCalls == 3

\* the requests: a GET /experts/calendars, a DELETE, or one that is a PUT or a
\* bulk upsert when it starts
CacheKinds == {"list", "delete", "none"}

InitCache ==
    /\ experts = [u \in RouteUids |-> RosterRow(u)]
    /\ clock = 0
    /\ lastWriter = [u \in RouteUids |-> 0]
    /\ procs \in {f \in [1..NumCacheCalls -> {[IdleTask EXCEPT !.kind = k] : k \in CacheKinds}] :
                    Cardinality({p \in 1..NumCacheCalls : f[p].kind # "list"}) = 1}
    /\ token = TRUE
    /\ sinceLast = MinRequestInterval
    /\ gap = MinRequestInterval
    /\ errors = [u \in RouteUids |-> <<>>]
    /\ lastLogger = [u \in RouteUids |-> 0]
    /\ dbFaults = 0
    /\ cache = << >>
    /\ calc = NoCall

NextCache ==
    \/ \E p \in Pids : ListCacheGet(p)
    \/ \E p \in Pids : ListCount(p)
    \/ \E p \in Pids : ListSelect(p)
    \/ \E p \in Pids : ListCacheSet(p)
    \/ TtlPasses
    \/ \E p \in Pids, u \in RouteUids, inp \in UpdateInputs : PutGet(p, u, inp)
    \/ \E p \in Pids : PutClearCache(p)
    \/ \E p \in Pids : PutSave(p)
    \/ \E p \in Pids, u \in RouteUids, inp \in UpsertInputs : BulkLoad(p, u, inp)
    \/ \E p \in Pids : BulkSave(p)
    \/ \E p \in Pids : BulkClearCache(p)
    \/ \E p \in Pids, field \in LookupFields :
          \E ident \in DeleteIdents(field) : DeleteGet(p, field, ident)
    \/ \E p \in Pids : DeleteClearCache(p)
    \/ \E p \in Pids : DeleteCommit(p)

SpecCache == InitCache /\ [][NextCache]_vars

----------------------------------------------------------------------------
\* The pass over a roster of two experts next to readers of
\* GET /experts/calendars and a delete of one expert, with a provider that
\* answers every request with a 2xx (SpecServe)

\* the tasks: two readers of the listing, the scheduled pass, one delete
ServeTasks == <<"list", "list", "pass", "delete">>

\* the expert the delete is for: the last of the roster
ServeTargets == {u \in RouteUids : \A v \in RouteUids : v <= u}

InitServe ==
    /\ experts = [u \in RouteUids |-> RosterRow(u)]
    /\ clock = 0
    /\ lastWriter = [u \in DOMAIN experts |-> 0]
    /\ procs = [p \in 1..Len(ServeTasks) |-> [IdleTask EXCEPT !.kind = ServeTasks[p]]]
    /\ token = TRUE
    /\ sinceLast = MinRequestInterval
    /\ gap = MinRequestInterval
    /\ errors = [u \in DOMAIN experts |-> <<>>]
    /\ lastLogger = [u \in DOMAIN experts |-> 0]
    /\ dbFaults = 0
    /\ cache = << >>
    /\ calc = NoCall

\* the pass is the only caller of the provider, so no request of it waits in
\* enforce_rate_limit; its roster is one batch, so it never sleeps between
\* batches; a first update that matches no row is followed by a
\* refresh_from_db that raises, as only the delete makes it miss
NextServe ==
    \/ \E p \in Pids : ListCacheGet(p)
    \/ \E p \in Pids : ListCount(p)
    \/ \E p \in Pids : ListSelect(p)
    \/ \E p \in Pids : ListCacheSet(p)
    \/ TtlPasses
    \/ \E p \in Pids : PassStart(p)
    \/ \E p \in Pids : FetchBatchCall(p)
    \/ \E p \in Pids : Attempt(p)
    \/ \E p \in Pids :
          \E response \in SyncSlotLists(procs[p].batch) :
              HttpResponse(p, "ok", response)
    \/ Tick
    \/ \E p \in Pids : PassAfterFetch(p)
    \/ \E p \in Pids : UpdateAvailabilityFirst(p)
    \/ \E p \in Pids : RefreshFromDb(p)
    \/ \E p \in Pids : PassAfterUpdate(p)
    \/ \E p \in Pids, sent \in BOOLEAN : PassAlgolia(p, sent)
    \/ \E p \in Pids, ident \in ServeTargets : DeleteGet(p, "bubble_uid", ident)
    \/ \E p \in Pids : DeleteClearCache(p)
    \/ \E p \in Pids : DeleteCommit(p)

SpecServe == InitServe /\ [][NextServe]_vars

----------------------------------------------------------------------------
\* SimpleCache on its own: get, set, delete and clear on a few keys while time
\* passes (SpecTtl). start_cleanup_task is never called, so no background
\* cleanup runs.

\* default_ttl of the global cache instance, in seconds
DefaultTtl == 300

\* the latest time.time() of a call
MaxTime == 4
\* the largest ttl a caller passes
MaxTtl == 2

\* keys and values of the callers
CacheKeys == {"k1", "k2"}
CacheValues == {1, 2}
\* the ttl argument: None, or a number of seconds
TtlArgs == {Null} \cup 0..MaxTtl

\* SimpleCache.get(key); the result is recorded with the time of the call
CacheGet_ExpiresAtDeadline(key) ==
    LET entry == IF key \in DOMAIN cache THEN cache[key] ELSE NoCall
    IN  /\ IF entry = NoCall
           THEN /\ calc' = [fn |-> "get", key |-> key, out |-> Null, at |-> clock]
                /\ cache' = cache
           ELSE IF clock >= entry.expires_at
           THEN /\ calc' = [fn |-> "get", key |-> key, out |-> Null, at |-> clock]
                /\ cache' = [k \in DOMAIN cache \ {key} |-> cache[k]]
           ELSE /\ calc' = [fn |-> "get", key |-> key, out |-> entry.value, at |-> clock]
                /\ cache' = cache
        /\ UNCHANGED <<storeVars, clientVars, ledgerVars, procs, dbFaults>>
CacheGet(key) ==
    LET entry == IF key \in DOMAIN cache THEN cache[key] ELSE NoCall
    IN  /\ IF entry = NoCall
           THEN /\ calc' = [fn |-> "get", key |-> key, out |-> Null, at |-> clock]
                /\ cache' = cache
           ELSE IF clock > entry.expires_at
           THEN /\ calc' = [fn |-> "get", key |-> key, out |-> Null, at |-> clock]
                /\ cache' = [k \in DOMAIN cache \ {key} |-> cache[k]]
           ELSE /\ calc' = [fn |-> "get", key |-> key, out |-> entry.value, at |-> clock]
                /\ cache' = cache
        /\ UNCHANGED <<storeVars, clientVars, ledgerVars, procs, dbFaults>>

\* SimpleCache.set(key, value, ttl)
CacheSet(key, value, ttl_arg) ==
    LET ttl == IF ttl_arg = Null THEN DefaultTtl ELSE ttl_arg
        expires_at == clock + ttl
    IN  /\ cache' = [k \in DOMAIN cache \cup {key} |->
                        IF k = key THEN [value |-> value, expires_at |-> expires_at]
                        ELSE cache[k]]
        /\ calc' = [fn |-> "set", key |-> key, value |-> value, ttl |-> ttl_arg,
                    out |-> Null, at |-> clock]
        /\ UNCHANGED <<storeVars, clientVars, ledgerVars, procs, dbFaults>>

\* SimpleCache.delete(key)
CacheDelete(key) ==
    /\ cache' = [k \in DOMAIN cache \ {key} |-> cache[k]]
    /\ calc' = [fn |-> "delete", key |-> key,
                out |-> IF key \in DOMAIN cache THEN 1 ELSE 0, at |-> clock]
    /\ UNCHANGED <<storeVars, clientVars, ledgerVars, procs, dbFaults>>

\* SimpleCache.clear()
CacheClear ==
    /\ cache' = << >>
    /\ calc' = [fn |-> "clear", key |-> NoText, out |-> Null, at |-> clock]
    /\ UNCHANGED <<storeVars, clientVars, ledgerVars, procs, dbFaults>>

\* time.time() moves on by a second
SecondPasses ==
    /\ clock < MaxTime
    /\ clock' = clock + 1
    /\ UNCHANGED <<experts, lastWriter, clientVars, ledgerVars, procs, dbFaults,
                   cache, calc>>

InitTtl ==
    /\ experts = << >>
    /\ clock = 0
    /\ lastWriter = << >>
    /\ procs = << >>
    /\ token = TRUE
    /\ sinceLast = MinRequestInterval
    /\ gap = MinRequestInterval
    /\ errors = << >>
    /\ lastLogger = << >>
    /\ dbFaults = 0
    /\ cache = << >>
    /\ calc = NoCall

NextTtl ==
    \/ \E key \in CacheKeys : CacheGet(key)
    \/ \E key \in CacheKeys, value \in CacheValues, ttl \in TtlArgs :
          CacheSet(key, value, ttl)
    \/ \E key \in CacheKeys : CacheDelete(key)
    \/ CacheClear
    \/ SecondPasses

SpecTtl == InitTtl /\ [][NextTtl]_vars

----------------------------------------------------------------------------
\* Request validation and the writes of validated submissions (SpecSubmit)

\* calendar ids as a client can send them
RawIds == {"calA", " calB ", " ", ""}

\* str.strip()
Strip(id) ==
    CASE id = " calB " -> "calB"
      [] id = " "      -> ""
      [] OTHER         -> id

\* list(set(...)) for a non-empty set: its elements once each, in some order
ListOfSet(ids) ==
    {f \in [1..Cardinality(ids) -> ids] : \A x \in ids : \E i \in DOMAIN f : f[i] = x}

\* the ids kept by "[id.strip() for id in v if id and id.strip()]"
KeptIds_Unstripped(v) == {v[i] : i \in {j \in DOMAIN v : v[j] # "" /\ Strip(v[j]) # ""}}
KeptIds(v) == {Strip(v[i]) : i \in {j \in DOMAIN v : v[j] # "" /\ Strip(v[j]) # ""}}

\* calendar_ids_must_be_valid of ExpertCalendar and of ExpertUpdate: the values
\* the validator can return; none when it raises ValueError
CalendarIdsValid(v) ==
    IF v = <<>> THEN {}
    ELSE IF KeptIds(v) = {} THEN {}
    ELSE ListOfSet(KeptIds(v))

\* experts_must_have_unique_uids of ExpertCalendarList: no ValueError
UniqueUids_BubbleOnly(v) ==
    Cardinality({v[i].bubble_uid : i \in DOMAIN v}) = Len(v)
UniqueUids(v) ==
    /\ Cardinality({v[i].bubble_uid : i \in DOMAIN v}) = Len(v)
    /\ Cardinality({v[i].cronofy_id : i \in DOMAIN v}) = Len(v)

\* ExpertCalendarList(**body): the values the parsed submission can have; none
\* when the list is empty (min_items=1), when the validator of an entry raises
\* or when two entries share a key
Validated(raw) ==
    IF raw = <<>> \/ ~UniqueUids(raw) THEN {}
    ELSE LET lists == UNION {CalendarIdsValid(raw[i].calendar_ids) : i \in DOMAIN raw}
             choices == {c \in [DOMAIN raw -> lists] :
                            \A i \in DOMAIN raw :
                                c[i] \in CalendarIdsValid(raw[i].calendar_ids)}
         IN  IF \E i \in DOMAIN raw : CalendarIdsValid(raw[i].calendar_ids) = {}
             THEN {}
             ELSE {[i \in DOMAIN raw |-> [raw[i] EXCEPT !.calendar_ids = c[i]]] :
                      c \in choices}

\* POST /experts/calendars with a body that the schema accepts: the handler is
\* entered with the parsed submission
SubmitBulk(p, raw, data) ==
    /\ CanStart(p)
    /\ data \in Validated(raw)
    /\ procs' = [procs EXCEPT ![p] = [@ EXCEPT !.kind = "bulk", !.pc = "bulk_txn",
                                              !.raw = raw, !.data = data]]
    /\ UNCHANGED <<storeVars, clientVars, ledgerVars, dbFaults, cache, calc>>

\* POST /experts/calendars with a body that the schema rejects: 422, the
\* handler is not entered
SubmitBulkRejected(p, raw) ==
    /\ CanStart(p)
    /\ Validated(raw) = {}
    /\ procs' = [procs EXCEPT ![p] = [@ EXCEPT !.kind = "bulk", !.pc = "bulk_422",
                                              !.raw = raw]]
    /\ UNCHANGED <<storeVars, clientVars, ledgerVars, dbFaults, cache, calc>>

\* Expert.bulk_create(experts_to_create): the table with the new rows; the
\* INSERT fails when a new row's bubble_uid is stored or its cronofy_id is held
\* by a row of the table (both columns are unique=True)
BulkCreate(rows, creates) ==
    IF \E i \in DOMAIN creates :
          \/ creates[i].bubble_uid \in DOMAIN rows
          \/ CronofyTaken(rows, creates[i].cronofy_id, creates[i].bubble_uid)
    THEN [ok |-> FALSE, rows |-> rows]
    ELSE [ok |-> TRUE,
          rows |-> [u \in DOMAIN rows \cup {creates[i].bubble_uid : i \in DOMAIN creates} |->
                        IF u \in DOMAIN rows THEN rows[u]
                        ELSE LET e == creates[CHOOSE i \in DOMAIN creates :
                                                  creates[i].bubble_uid = u]
                             IN  NewRow(e.expert_name, e.cronofy_id, e.calendar_ids)]]

RECURSIVE BulkSaves(_, _, _)
\* "for expert in experts_to_update: await expert.save(update_fields=...)": the
\* table after the saves in order. Each save writes the entry's fields and the
\* version of the loaded object plus one; an UPDATE fails when its cronofy_id is
\* held by another row, and matches no row when the expert is gone
BulkSaves(rows, updates, existing_map) ==
    IF updates = <<>> THEN [ok |-> TRUE, rows |-> rows]
    ELSE LET e == Head(updates)
         IN  IF e.bubble_uid \notin DOMAIN rows
             THEN BulkSaves(rows, Tail(updates), existing_map)
             ELSE IF CronofyTaken(rows, e.cronofy_id, e.bubble_uid)
             THEN [ok |-> FALSE, rows |-> rows]
             ELSE BulkSaves([rows EXCEPT ![e.bubble_uid] = [@ EXCEPT
                                    !.expert_name = e.expert_name,
                                    !.cronofy_id = e.cronofy_id,
                                    !.calendar_ids = e.calendar_ids,
                                    !.version = existing_map[e.bubble_uid].version + 1]],
                            Tail(updates), existing_map)

\* the entries of a submission whose bubble_uid is (is not) in existing_map
SelectEntries(data, uids, present) ==
    SelectSeq(data, LAMBDA e : (e.bubble_uid \in uids) = present)

\* ExpertService.bulk_upsert_experts(expert_data), first statement of its
\* transaction: existing_map, the stored experts of the submission's bubble_uids
BulkUpsertLoad(p) ==
    LET t == procs[p]
        existing_bubble_uids == {t.data[i].bubble_uid : i \in DOMAIN t.data}
    IN  /\ t.kind = "bulk" /\ t.pc = "bulk_txn"
        /\ procs' = [procs EXCEPT ![p] = [@ EXCEPT
                        !.pc = "bulk_write",
                        !.existing_map = [u \in existing_bubble_uids \cap DOMAIN experts |->
                                              experts[u]]]]
        /\ UNCHANGED <<storeVars, clientVars, ledgerVars, dbFaults, cache, calc>>

\* ExpertService.bulk_upsert_experts, the writes of its transaction and the
\* commit: the experts that are not in existing_map are created, the others
\* saved with the loaded version + 1; an IntegrityError rolls the transaction
\* back and is raised again
BulkUpsertWrite_NoRollback(p) ==
    LET t == procs[p]
        created == BulkCreate(experts, SelectEntries(t.data, DOMAIN t.existing_map, FALSE))
        saved == BulkSaves(created.rows,
                           SelectEntries(t.data, DOMAIN t.existing_map, TRUE),
                           t.existing_map)
        written == {t.data[i].bubble_uid : i \in DOMAIN t.data}
    IN  /\ t.kind = "bulk" /\ t.pc = "bulk_write"
        /\ experts' = saved.rows
        /\ lastWriter' = [u \in DOMAIN saved.rows |->
                            IF u \in written THEN p ELSE lastWriter[u]]
        /\ procs' = [procs EXCEPT ![p] =
                        IF created.ok /\ saved.ok
                        THEN [@ EXCEPT !.pc = "bulk_clear", !.wrote = Len(t.data)]
                        ELSE [@ EXCEPT !.pc = "bulk_500"]]
        /\ UNCHANGED <<clock, clientVars, ledgerVars, dbFaults, cache, calc>>
BulkUpsertWrite(p) ==
    LET t == procs[p]
        created == BulkCreate(experts, SelectEntries(t.data, DOMAIN t.existing_map, FALSE))
        saved == BulkSaves(created.rows,
                           SelectEntries(t.data, DOMAIN t.existing_map, TRUE),
                           t.existing_map)
        written == {t.data[i].bubble_uid : i \in DOMAIN t.data}
    IN  /\ t.kind = "bulk" /\ t.pc = "bulk_write"
        /\ IF created.ok /\ saved.ok
           THEN /\ experts' = saved.rows
                /\ lastWriter' = [u \in DOMAIN saved.rows |->
                                    IF u \in written THEN p ELSE lastWriter[u]]
                /\ procs' = [procs EXCEPT ![p] = [@ EXCEPT !.pc = "bulk_clear",
                                                          !.wrote = Len(t.data)]]
           ELSE /\ procs' = [procs EXCEPT ![p].pc = "bulk_500"]
                /\ UNCHANGED <<experts, lastWriter>>
        /\ UNCHANGED <<clock, clientVars, ledgerVars, dbFaults, cache, calc>>

\* PUT /experts/{bubble_uid}: save() is refused because another expert holds the
\* cronofy_id; the transaction rolls back and the route answers 500
PutSaveConflict(p) ==
    LET t == procs[p]
    IN  /\ t.kind = "put" /\ t.pc \in {"put_clear", "put_save"}
        /\ t.uid \in DOMAIN experts
        /\ CronofyTaken(experts, t.inp.cronofy_id, t.uid)
        /\ procs' = [procs EXCEPT ![p].pc = "put_500"]
        /\ UNCHANGED <<storeVars, clientVars, ledgerVars, dbFaults, cache, calc>>

\* PUT /experts/{bubble_uid}: the expert was deleted after the route loaded it;
\* the UPDATE of save() matches no row, and save() returns or raises
PutSaveMissing(p, raised) ==
    LET t == procs[p]
    IN  /\ t.kind = "put" /\ t.pc = "put_save"
        /\ t.uid \notin DOMAIN experts
        /\ procs' = [procs EXCEPT ![p].pc = IF raised THEN "put_500" ELSE "put_ret"]
        /\ UNCHANGED <<storeVars, clientVars, ledgerVars, dbFaults, cache, calc>>

\* PUT /experts/{bubble_uid} with a body that ExpertUpdate rejects: 422
SubmitPutRejected(p, u, raw) ==
    /\ CanStart(p)
    /\ CalendarIdsValid(raw) = {}
    /\ procs' = [procs EXCEPT ![p] = [@ EXCEPT !.kind = "put", !.pc = "put_422",
                                              !.uid = u, !.raw = raw]]
    /\ UNCHANGED <<storeVars, clientVars, ledgerVars, dbFaults, cache, calc>>

\* calendar ids of a list at most
MaxIds == 2
\* entries of a bulk submission at most
MaxEntries == 2
\* the bubble_uid and cronofy_id values of the entries: of a stored expert, new
SubmitUids == {1, 3}
SubmitCronofyIds == {100, 200, 300}

\* the calendar_ids a client can send
RawLists == UNION {[1..n -> RawIds] : n \in 0..MaxIds}

\* the entries of a bulk submission with one calendar id, sent as it is stored
PlainEntries ==
    [expert_name : {"expert"}, cronofy_id : SubmitCronofyIds,
     bubble_uid : SubmitUids, calendar_ids : {<<"calA">>}]

\* the bodies of POST /experts/calendars with n entries: any keys in every
\* entry, any calendar ids in one of them
RawSubmissions(n) ==
    IF n = 0 THEN {<<>>}
    ELSE {[i \in 1..n |-> IF i = k THEN [plain[i] EXCEPT !.calendar_ids = ids]
                                   ELSE plain[i]] :
            plain \in [1..n -> PlainEntries], k \in 1..n, ids \in RawLists}

InitSubmit ==
    /\ experts = [u \in RouteUids |-> RosterRow(u)]
    /\ clock = 0
    /\ lastWriter = [u \in RouteUids |-> 0]
    /\ procs = <<IdleTask>>
    /\ token = TRUE
    /\ sinceLast = MinRequestInterval
    /\ gap = MinRequestInterval
    /\ errors = [u \in RouteUids |-> <<>>]
    /\ lastLogger = [u \in RouteUids |-> 0]
    /\ dbFaults = 0
    /\ cache = << >>
    /\ calc = NoCall

NextSubmit ==
    \/ \E p \in Pids :
          /\ CanStart(p)
          /\ \E n \in 0..MaxEntries : \E raw \in RawSubmissions(n) :
                \E data \in Validated(raw) : SubmitBulk(p, raw, data)
    \/ \E p \in Pids :
          /\ CanStart(p)
          /\ \E n \in 0..MaxEntries : \E raw \in RawSubmissions(n) :
                SubmitBulkRejected(p, raw)
    \/ \E p \in Pids : BulkUpsertLoad(p)
    \/ \E p \in Pids : BulkUpsertWrite(p)
    \/ \E p \in Pids : BulkClearCache(p)
    \/ \E p \in Pids :
          /\ CanStart(p)
          /\ \E u \in RouteUids, raw \in RawLists :
                \E ids \in CalendarIdsValid(raw) :
                    PutGet(p, u, [cronofy_id |-> 101, calendar_ids |-> ids])
    \/ \E p \in Pids :
          /\ CanStart(p)
          /\ \E u \in RouteUids, raw \in RawLists : SubmitPutRejected(p, u, raw)
    \/ \E p \in Pids : PutClearCache(p)
    \/ \E p \in Pids : PutSave(p)

SpecSubmit == InitSubmit /\ [][NextSubmit]_vars

----------------------------------------------------------------------------
\* The pure functions of the client, applied to bounded inputs (SpecPure)

\* slots of a response at most
MaxSlots == 2
\* the latest wall-clock hour of a start
MaxWall == 2
\* experts of a roster at most
MaxRoster == 5
\* the largest batch_size
MaxBatchSize == 3

\* the subject ids of the experts of a request
Subs == {100, 200}
\* the UTC offsets of the start strings: "-01:00" and "Z"
Offsets == {-1, 0}

\* the slots a response can hold: a start string or none, any participants
Slots ==
    [start : {[wall |-> w, offset |-> o] : w \in 1..MaxWall, o \in Offsets}
                \cup {NoStart},
     participants : SUBSET Subs]

\* the available_slots of a response
Responses == UNION {[1..n -> Slots] : n \in 0..MaxSlots}

\* find_earliest_available_slot_from_response(cronofy_response, expert_cronofy_id)
CallFindEarliest(response, sub) ==
    /\ calc = NoCall
    /\ calc' = [fn |-> "find_earliest", args |-> <<response, sub>>,
                out |-> FindEarliest(response, sub)]
    /\ UNCHANGED <<storeVars, clientVars, ledgerVars, procs, dbFaults, cache>>

\* batch_experts(experts, batch_size) for a roster of n experts
CallBatchExperts(n, batch_size) ==
    LET roster == [k \in 1..n |-> k]
    IN  /\ calc = NoCall
        /\ calc' = [fn |-> "batch_experts", args |-> <<roster, batch_size>>,
                    out |-> BatchExperts(roster, batch_size)]
        /\ UNCHANGED <<storeVars, clientVars, ledgerVars, procs, dbFaults, cache>>

InitPure ==
    /\ experts = << >>
    /\ clock = 0
    /\ lastWriter = << >>
    /\ procs = << >>
    /\ token = TRUE
    /\ sinceLast = MinRequestInterval
    /\ gap = MinRequestInterval
    /\ errors = << >>
    /\ lastLogger = << >>
    /\ dbFaults = 0
    /\ cache = << >>
    /\ calc = NoCall

NextPure ==
    \/ /\ calc = NoCall
       /\ \E response \in Responses, sub \in Subs : CallFindEarliest(response, sub)
    \/ /\ calc = NoCall
       /\ \E n \in 0..MaxRoster, batch_size \in 1..MaxBatchSize :
             CallBatchExperts(n, batch_size)

SpecPure == InitPure /\ [][NextPure]_vars

----------------------------------------------------------------------------
\* Properties of concurrent writers (SpecStore)

\* every task other than p and q has not started
OthersIdle(p, q) == \A r \in Pids \ {p, q} : procs[r].pc = "idle"

\* p and q both called update_availability on the same record from in-memory
\* copies of the same version, both calls have returned, nobody else wrote
TwoUpdatesReturned(p, q) ==
    /\ p # q
    /\ procs[p].kind = "ua" /\ procs[p].pc = "ua_ret"
    /\ procs[q].kind = "ua" /\ procs[q].pc = "ua_ret"
    /\ procs[p].uid = procs[q].uid
    /\ procs[p].v0 = procs[q].v0
    /\ OthersIdle(p, q)

\* C1: two concurrent update_availability calls on one record, both starting
\* from copies of version v: once both have returned the stored version is
\* v + 2, each call applied exactly one write, and the stored
\* earliest_available_unix is the value of the write applied last.
C1_TwoConcurrentUpdates ==
    \A p, q \in Pids :
        TwoUpdatesReturned(p, q) =>
            LET u == procs[p].uid
            IN  /\ u \in DOMAIN experts
                /\ experts[u].version = procs[p].v0 + 2
                /\ procs[p].wrote = 1
                /\ procs[q].wrote = 1
                /\ lastWriter[u] \in {p, q}
                /\ experts[u].earliest_available_unix = procs[lastWriter[u]].val

\* C1 witness: two such calls have returned and wrote different values
C1_Witness ==
    \E p, q \in Pids :
        /\ TwoUpdatesReturned(p, q)
        /\ procs[p].val # procs[q].val
        /\ lastWriter[procs[p].uid] = q

\* C5: every write applied to a stored record leaves its version strictly
\* greater than the version stored immediately before that write.
C5_VersionOnlyIncreases ==
    [][\A u \in DOMAIN experts :
          (u \in DOMAIN experts' /\ experts'[u] # experts[u])
              => experts'[u].version > experts[u].version]_vars

\* p is a PUT or a bulk upsert and q an update_availability call on the same
\* record, both started from version v, both have returned, nobody else wrote
MutationRacedUpdate(p, q) ==
    /\ p # q
    /\ procs[p].pc \in {"put_ret", "bulk_ret"}
    /\ procs[q].kind = "ua" /\ procs[q].pc = "ua_ret"
    /\ procs[p].uid = procs[q].uid
    /\ procs[p].v0 = procs[q].v0
    /\ OthersIdle(p, q)

\* C6: when a PUT or a bulk upsert races with update_availability on one
\* record, afterwards the metadata change and the availability value are both
\* stored and the version has been raised once per mutation, by 2 in total.
C6_MutationRaceKeepsBoth ==
    \A p, q \in Pids :
        MutationRacedUpdate(p, q) =>
            LET u == procs[p].uid
            IN  /\ experts[u].version = procs[p].v0 + 2
                /\ experts[u].cronofy_id = procs[p].inp.cronofy_id
                /\ experts[u].calendar_ids = procs[p].inp.calendar_ids
                /\ experts[u].earliest_available_unix = procs[q].val

----------------------------------------------------------------------------
\* Properties of the Cronofy client (SpecClient)

\* C7: a provider call that fails with a transport timeout or a connection
\* failure has been attempted max_retries + 1 = 4 times before the failure
\* ends the call.
C7_TransportFailuresRetried ==
    \A p \in Pids :
        (procs[p].pc = "fb_ret" /\ procs[p].outcome \in {"timeout", "connect"})
            => procs[p].posts = MaxRetries + 1

\* C8: any two HTTP requests sent by this process are at least the minimum
\* inter-request interval apart, whoever the callers are.
C8_MinimumRequestInterval == gap >= MinRequestInterval

\* C9: with the access token unset no HTTP request is sent, no attempt is
\* retried, no exception is raised inside or out of the client, and every call
\* that has returned gave a null earliest time for every expert of its batch.
C9_TokenUnsetNullResults ==
    ~token =>
        \A p \in Pids :
            /\ procs[p].posts = 0
            /\ procs[p].attempt = 0
            /\ procs[p].outcome = "none"
            /\ procs[p].pc \in {"idle", "fb_call", "fb_ret"}
            /\ procs[p].pc = "fb_ret" =>
                  /\ Len(procs[p].results) = Len(procs[p].batch)
                  /\ \A i \in 1..Len(procs[p].batch) :
                        /\ procs[p].results[i].expert_id = procs[p].batch[i].cronofy_id
                        /\ procs[p].results[i].earliest_available_unix = Null

\* C9 witness: the token is unset and the call for the batch of two has returned
C9_Witness ==
    /\ ~token
    /\ \E p \in Pids : procs[p].pc = "fb_ret" /\ Len(procs[p].batch) = 2

----------------------------------------------------------------------------
\* Properties of the Error Ledger (SpecLedger)

\* C10: the ledger holds at most one entry per UID in every reachable state,
\* and an entry that log_error calls have written carries the reason, the
\* details and the timestamp of the call whose write was applied last: a
\* log_error for a UID that has an entry overwrites it in place, also when
\* log_error calls for that UID run concurrently.
C10_OneEntryPerUid ==
    \A u \in DOMAIN errors :
        /\ Len(errors[u]) <= 1
        /\ lastLogger[u] # 0 =>
              /\ Len(errors[u]) = 1
              /\ errors[u][1].error_reason = procs[lastLogger[u]].reason
              /\ errors[u][1].error_details = procs[lastLogger[u]].details
              /\ errors[u][1].unix_timestamp = procs[lastLogger[u]].ts

\* C10 witness: two log_error calls for one UID have returned, the first created
\* the entry, the second found it and overwrote it with another reason
C10_Witness ==
    \E p, q \in Pids, u \in DOMAIN errors :
        /\ p # q
        /\ procs[p].kind = "log" /\ procs[p].pc = "le_ret" /\ procs[p].uid = u
        /\ procs[q].kind = "log" /\ procs[q].pc = "le_ret" /\ procs[q].uid = u
        /\ procs[p].logged = "created"
        /\ procs[q].logged = "updated"
        /\ procs[p].reason # procs[q].reason
        /\ lastLogger[u] = q
        /\ Len(errors[u]) = 1
        /\ errors[u][1].error_reason = procs[q].reason

----------------------------------------------------------------------------
\* Properties of the sync engine (SpecSync)

\* the pass of task p has ended
PassDone(p) == procs[p].kind = "pass" /\ procs[p].pc = "pass_done"

\* C2: when a full pass has ended, every expert of a batch whose provider call
\* failed is counted as failed and not as processed (no Algolia record, and
\* total_failed covers them all), and has an entry in the Error Ledger.
C2_FailedBatchCountedAndLogged ==
    \A p \in Pids :
        PassDone(p) =>
            LET t == procs[p]
            IN  /\ \A u \in t.lost :
                      /\ \A k \in 1..Len(t.algolia) : t.algolia[k].objectID # u
                      /\ errors[u] # <<>>
                /\ t.failed >= Cardinality(t.lost)
                /\ t.processed <= Len(t.roster) - Cardinality(t.lost)

\* task p runs a full pass or a single refresh, and its step is the one taken
SyncStep(p) ==
    /\ procs[p].kind \in {"pass", "refresh"}
    /\ procs'[p] # procs[p]

\* C3: a step of a full pass or of a single refresh whose provider call for
\* the expert at hand has failed leaves that expert's stored record as it was
\* (earliest_available_unix, last_availability_check and version included).
C3_FailureLeavesRecord ==
    [][\A p \in Pids :
          (SyncStep(p) /\ procs[p].outcome \in FailedOutcomes
                       /\ procs[p].uid \in DOMAIN experts)
              => experts'[procs[p].uid] = experts[procs[p].uid]]_vars

\* C4: when update_availability returns to a full pass or a single refresh
\* whose provider call succeeded (slot found or not), the Error Ledger holds
\* no entry for that expert.
C4_SuccessClearsLedger ==
    [][\A p \in Pids :
          (SyncStep(p) /\ procs[p].outcome = "ok"
                       /\ procs[p].pc \in {"ua_call", "ua_retry"}
                       /\ procs'[p].pc = "ua_ret")
              => errors'[procs[p].uid] = <<>>]_vars

----------------------------------------------------------------------------
\* Properties of the pass as a whole (SpecSync)

\* the pass has returned to its caller or has raised
PassEnded(p) ==
    /\ procs[p].kind = "pass"
    /\ procs[p].pc \in {"pass_done", "pass_error", "pass_raised"}

\* C13 as stated: every pass that has ended has completed and reported its
\* processed and failed counts.
C13_PassAlwaysReportsCounts ==
    \A p \in Pids : PassEnded(p) => procs[p].pc = "pass_done"

\* C13, amended: the pass never raises to its caller; a pass that has loaded
\* its roster completes and reports processed and failed counts that add up to
\* the size of the roster, whatever provider call, store write or sink call
\* failed; a pass whose roster could not be loaded returns without counts and
\* without having processed any expert.
C13_PassNeverRaises ==
    \A p \in Pids :
        PassEnded(p) =>
            /\ procs[p].pc # "pass_raised"
            /\ procs[p].pc = "pass_done" =>
                    procs[p].processed + procs[p].failed = Len(procs[p].roster)
            /\ procs[p].pc = "pass_error" =>
                    /\ procs[p].roster = <<>>
                    /\ procs[p].algolia = <<>>

\* a pass has completed although a provider call and a store write failed
C13_Witness ==
    \E p \in Pids : PassDone(p) /\ procs[p].failed = 1 /\ procs[p].lost # {}

\* C14: in a pass, an expert for which a 2xx response has no slot gets
\* earliest_available_unix = null stored by the write of update_availability
\* and is then counted as processed, not as failed.
C14_NoSlotStoredNullAndProcessed ==
    [][\A p \in Pids :
          LET t == procs[p]
          IN  (t.kind = "pass" /\ t.outcome = "ok" /\ t.val = Null) =>
                /\ (t.pc \in {"ua_call", "ua_retry"} /\ procs'[p].pc = "ua_ret")
                        => experts'[t.uid].earliest_available_unix = Null
                /\ (t.pc = "ua_ret" /\ procs'[p].pc # "ua_ret")
                        => /\ procs'[p].processed = t.processed + 1
                           /\ procs'[p].failed = t.failed]_vars

\* the pass has stored null for an expert without a slot in a 2xx response
C14_Witness ==
    \E p \in Pids :
        /\ procs[p].kind = "pass" /\ procs[p].pc = "ua_ret"
        /\ procs[p].outcome = "ok" /\ procs[p].val = Null
        /\ lastWriter[procs[p].uid] = p
        /\ experts[procs[p].uid].earliest_available_unix = Null

----------------------------------------------------------------------------
\* Properties of the endpoints (SpecRoutes)

\* C11: once a delete endpoint has returned for an expert, the Error Ledger
\* holds no entry for that expert's UID.
C11_DeleteClearsLedger ==
    \A p \in Pids :
        (procs[p].kind = "delete" /\ procs[p].pc = "del_ret")
            => errors[procs[p].uid] = <<>>

\* C12: a request during which log_error or clear_error raised still ends with
\* one of the responses its endpoint builds: the exception of the ledger never
\* leaves the endpoint.
C12_LedgerFailureContained ==
    \A p \in Pids :
        (procs[p].kind \in {"refresh", "avail"} /\ procs[p].logged = "raised")
            => procs[p].pc # "rf_unhandled"

\* C17: a manual single-expert refresh whose provider call failed does not
\* return the result of a completed refresh: it returns the failure result.
C17_RefreshReportsFailure ==
    [][\A p \in Pids :
          (procs[p].kind = "refresh" /\ procs[p].outcome \in FailedOutcomes
                                     /\ procs'[p].pc # procs[p].pc)
              => procs'[p].pc # "rf_ret"]_vars

----------------------------------------------------------------------------
\* Properties of the pure functions (SpecPure)

\* the slots of a response that list sub as a participant
SlotsOf(response, sub) == {i \in 1..Len(response) : sub \in response[i].participants}

RECURSIVE Flatten(_)
\* the batches concatenated in order
Flatten(batches) ==
    IF batches = <<>> THEN <<>> ELSE Head(batches) \o Flatten(Tail(batches))

\* C16: batch_experts on N experts with batch size M returns the least number
\* of batches that M-sized batches need to hold N experts (none for N = 0),
\* every batch but the last has M experts, the last has N mod M (M when M
\* divides N), and the batches concatenated in order are the roster.
C16_BatchesPartitionRoster ==
    calc.fn = "batch_experts" =>
        LET roster == calc.args[1]
            N == Len(roster)
            M == calc.args[2]
            batches == calc.out
            B == Len(batches)
        IN  /\ B * M >= N
            /\ B > 0 => (B - 1) * M < N
            /\ \A k \in 1..(B - 1) : Len(batches[k]) = M
            /\ B > 0 => Len(batches[B]) = (IF N % M = 0 THEN M ELSE N % M)
            /\ Flatten(batches) = roster

\* batch_experts has split a roster into more than one batch, the last one
\* not full
C16_Witness ==
    /\ calc.fn = "batch_experts"
    /\ Len(calc.out) > 1
    /\ Len(calc.args[1]) % calc.args[2] # 0

----------------------------------------------------------------------------
\* Properties of the cached listing (SpecCache)

\* no request that writes experts is in progress, and one has returned
WritesSettled ==
    /\ \A p \in Pids :
          procs[p].kind # "list" =>
              procs[p].pc \in {"idle", "put_ret", "bulk_ret", "del_ret", "del_404"}
    /\ \E p \in Pids : procs[p].pc \in {"put_ret", "bulk_ret", "del_ret"}

\* C18: a GET /experts/calendars that starts after a bulk upsert, a PUT or a
\* delete has returned, with no write in progress, never answers from a
\* cached listing that differs from the stored experts: the writes clear every
\* listing that was built from the rows as they were before.
C18_NoStaleListingAfterWrite ==
    [][\A p \in Pids :
          (WritesSettled /\ procs[p].kind = "list" /\ procs[p].pc = "idle"
                         /\ procs'[p].pc = "list_ret")
              => procs'[p].listing = Page(experts, Cardinality(DOMAIN experts))]_vars

----------------------------------------------------------------------------
\* Properties of validated submissions (SpecSubmit)

\* a calendar-id list that is not empty, has no id twice and no id that is
\* blank or has white space around it
WellFormedIds(ids) ==
    /\ ids # <<>>
    /\ \A i, j \in DOMAIN ids : ids[i] = ids[j] => i = j
    /\ \A i \in DOMAIN ids : ids[i] # "" /\ Strip(ids[i]) = ids[i]

\* a raw calendar-id list that is empty or has only blank ids
AllBlank(v) == \A i \in DOMAIN v : Strip(v[i]) = ""

\* the experts as they are before the request
StoredBefore == [u \in RouteUids |-> RosterRow(u)]

\* C19: every stored expert has a well-formed calendar-id list, whatever lists
\* the bulk upserts and the PUTs were sent; a bulk upsert with an entry whose
\* list is empty or all-blank is answered 422 and the experts are as before.
C19_StoredCalendarIdsWellFormed ==
    /\ \A u \in DOMAIN experts : WellFormedIds(experts[u].calendar_ids)
    /\ \A p \in Pids :
          (procs[p].kind = "bulk"
              /\ \E i \in DOMAIN procs[p].raw : AllBlank(procs[p].raw[i].calendar_ids))
              => procs[p].pc = "bulk_422" /\ experts = StoredBefore

\* a bulk upsert has stored the two ids of a list sent with white space and
\* a duplicate
C19_Witness ==
    \E p \in Pids :
        /\ procs[p].kind = "bulk" /\ procs[p].pc = "bulk_ret"
        /\ \E i \in DOMAIN procs[p].raw :
              /\ procs[p].raw[i].calendar_ids = <<" calB ", "calA">>
              /\ Len(experts[procs[p].raw[i].bubble_uid].calendar_ids) = 2

\* two entries of a submission have the same bubble_uid or the same cronofy_id
HasDuplicateKeys(raw) ==
    \E i, j \in DOMAIN raw :
        /\ i # j
        /\ \/ raw[i].bubble_uid = raw[j].bubble_uid
           \/ raw[i].cronofy_id = raw[j].cronofy_id

\* C20: a bulk submission with two entries of the same bubble_uid or of the
\* same cronofy_id is answered 422 and the experts are as before: none is
\* created, none is modified.
C20_DuplicateKeysRejected ==
    \A p \in Pids :
        (procs[p].kind = "bulk" /\ HasDuplicateKeys(procs[p].raw))
            => procs[p].pc = "bulk_422" /\ experts = StoredBefore

\* a submission of two entries with valid calendar ids, different bubble_uids
\* and the same cronofy_id has been answered 422
C20_Witness ==
    \E p \in Pids :
        /\ procs[p].kind = "bulk" /\ procs[p].pc = "bulk_422"
        /\ Len(procs[p].raw) = 2
        /\ procs[p].raw[1].bubble_uid # procs[p].raw[2].bubble_uid
        /\ procs[p].raw[1].cronofy_id = procs[p].raw[2].cronofy_id
        /\ \A i \in DOMAIN procs[p].raw : ~AllBlank(procs[p].raw[i].calendar_ids)

----------------------------------------------------------------------------
\* Concurrent bulk upserts, PUTs and deletes on the unique columns

\* number of requests that run concurrently
NumUniqueCalls == 2

\* the submissions of at most MaxEntries entries that the schema accepts as
\* they are
PlainSubmissions ==
    UNION {{raw \in [1..n -> PlainEntries] : Validated(raw) = {raw}} : n \in 1..MaxEntries}

\* the expert that is deleted: one that no submission names
DeleteTargets == RouteUids \ SubmitUids

InitUnique ==
    /\ experts = [u \in RouteUids |-> RosterRow(u)]
    /\ clock = 0
    /\ lastWriter = [u \in RouteUids |-> 0]
    /\ procs \in [1..NumUniqueCalls -> {[IdleTask EXCEPT !.kind = k] : k \in {"none", "delete"}}]
    /\ token = TRUE
    /\ sinceLast = MinRequestInterval
    /\ gap = MinRequestInterval
    /\ errors = [u \in RouteUids |-> <<>>]
    /\ lastLogger = [u \in RouteUids |-> 0]
    /\ dbFaults = 0
    /\ cache = << >>
    /\ calc = NoCall

NextUnique ==
    \/ \E p \in Pids :
          /\ procs[p].kind = "none" /\ procs[p].pc = "idle"
          /\ \E raw \in PlainSubmissions : SubmitBulk(p, raw, raw)
    \/ \E p \in Pids : BulkUpsertLoad(p)
    \/ \E p \in Pids : BulkUpsertWrite(p)
    \/ \E p \in Pids : BulkClearCache(p)
    \/ \E p \in Pids :
          /\ procs[p].kind = "none" /\ procs[p].pc = "idle"
          /\ \E u \in RouteUids, cronofy \in SubmitCronofyIds :
                PutGet(p, u, [cronofy_id |-> cronofy, calendar_ids |-> <<"calB">>])
    \/ \E p \in Pids : PutClearCache(p)
    \/ \E p \in Pids : PutSave(p)
    \/ \E p \in Pids : PutSaveConflict(p)
    \/ \E p \in Pids, raised \in BOOLEAN : PutSaveMissing(p, raised)
    \/ \E p \in Pids, ident \in DeleteTargets : DeleteGet(p, "bubble_uid", ident)
    \/ \E p \in Pids : DeleteClearCache(p)
    \/ \E p \in Pids : DeleteCommit(p)

SpecUnique == InitUnique /\ [][NextUnique]_vars

----------------------------------------------------------------------------
\* Properties of the retry loop (SpecClient)

\* C23: a request that ends with a 4xx status ends the provider call at once:
\* the call returns to its caller without another HTTP request and without a
\* backoff sleep, and nothing more happens in the call afterwards.
C23_NonRetryableFailsAtOnce ==
    [][\A p \in Pids :
          /\ (procs[p].pc = "http_wait" /\ procs'[p].pc # "http_wait"
                                        /\ procs'[p].outcome = "4xx")
                => /\ procs'[p].pc = "fb_ret"
                   /\ procs'[p].posts = procs[p].posts
                   /\ procs'[p].attempt = procs[p].attempt
                   /\ procs'[p].timer = 0
          /\ (procs[p].pc = "fb_ret" /\ procs[p].outcome = "4xx")
                => procs'[p] = procs[p]]_vars

\* a call has ended with a 4xx after its only request
C23_Witness ==
    \E p \in Pids :
        /\ procs[p].pc = "fb_ret" /\ procs[p].outcome = "4xx"
        /\ procs[p].posts = 1 /\ procs[p].attempt = 0

\* C28: one provider call sends at most max_retries + 1 = 4 HTTP requests; a
\* call that ended on a 5xx status has sent exactly 4; a call that got a 2xx
\* response has returned and sends nothing more.
C28_AtMostFourAttempts ==
    \A p \in Pids :
        /\ procs[p].posts <= MaxRetries + 1
        /\ (procs[p].pc = "fb_ret" /\ procs[p].outcome = "5xx")
              => procs[p].posts = MaxRetries + 1
        /\ procs[p].outcome = "ok"
              => procs[p].pc = "fb_ret" /\ procs[p].posts = procs[p].attempt + 1

\* a call has ended on the 5xx of its fourth request, and another has returned
\* the 2xx response of a retry
C28_Witness ==
    /\ \E p \in Pids : /\ procs[p].pc = "fb_ret" /\ procs[p].outcome = "5xx"
                        /\ procs[p].posts = MaxRetries + 1
    /\ \E p \in Pids : /\ procs[p].pc = "fb_ret" /\ procs[p].outcome = "ok"
                        /\ procs[p].posts > 1

----------------------------------------------------------------------------
\* Properties of update_availability's two paths (SpecStore)

\* C26: every write an update_availability call applies, on the first attempt
\* or on the retry, lands on a stored record whose version is the version the
\* call last read; a call makes at most two write attempts.
C26_RetryMatchesVersionRead ==
    [][\A p \in Pids :
          (procs[p].kind = "ua" /\ procs'[p].wrote = procs[p].wrote + 1)
              => /\ experts[procs[p].uid].version = procs[p].mem.version
                 /\ procs'[p].wrote <= 2]_vars

\* C27: when update_availability has returned and nobody has written the
\* record after the call's last write, the caller's in-memory record carries
\* the stored version, whichever path the call took.
C27_MemoryVersionIsStoredVersion ==
    \A p \in Pids :
        (procs[p].kind = "ua" /\ procs[p].pc = "ua_ret"
                              /\ lastWriter[procs[p].uid] = p)
            => procs[p].mem.version = experts[procs[p].uid].version

----------------------------------------------------------------------------
\* Properties of the single-expert refresh's response (SpecSync)

\* C24: the response of a successful single-expert refresh carries as
\* old_timestamp the earliest value stored immediately before this refresh's
\* write and as new_timestamp the value stored by it, and timestamp_changed is
\* true exactly when the two differ.
C24_RefreshReportsOldAndNew ==
    [][\A p \in Pids :
          (procs[p].kind = "refresh" /\ procs'[p].wrote = procs[p].wrote + 1)
              => LET u == procs[p].uid
                     response == RefreshResponse(procs'[p])
                 IN  /\ response.old_timestamp = experts[u].earliest_available_unix
                     /\ response.new_timestamp = experts'[u].earliest_available_unix
                     /\ response.timestamp_changed =
                            (response.old_timestamp # response.new_timestamp)]_vars

----------------------------------------------------------------------------
\* Properties of the order of the pass (SpecSync)

\* C25: a pass that finds no expert stored returns at once: the step that
\* loads the empty roster ends the pass and changes nothing else (no request,
\* no write, no ledger entry, nothing handed to the index), and nothing
\* happens in the pass afterwards.
C25_EmptyRosterIsNoOp ==
    [][\A p \in Pids :
          /\ (procs[p].kind = "pass" /\ procs[p].pc = "idle" /\ experts = << >>
                /\ procs'[p].pc \notin {"idle", "pass_error"})
                => /\ procs'[p] = [procs[p] EXCEPT !.pc = "pass_empty"]
                   /\ UNCHANGED <<storeVars, clientVars, ledgerVars>>
          /\ procs[p].pc = "pass_empty"
                => /\ procs'[p] = procs[p]
                   /\ procs[p].posts = 0 /\ procs[p].wrote = 0
                   /\ procs[p].sink = "none" /\ procs[p].pushed = <<>>]_vars

\* a pass over an empty roster has ended
C25_Witness ==
    \E p \in Pids : /\ procs[p].kind = "pass" /\ procs[p].pc = "pass_empty"
                    /\ experts = << >>

\* the experts of the batches before the idx-th
BeforeBatch(idx) == (idx - 1) * BatchSize

\* C29: the batches of a pass are handled one at a time in roster order: while
\* the pass is in the provider call of its idx-th batch, every expert of the
\* earlier batches has been counted and none of this one; the experts of a
\* batch are written in roster order; the call for the next batch starts only
\* out of the pause that follows the last expert of the batch, and the pass
\* goes to the index update from the last expert of the last batch without a
\* pause.
C29_BatchesOneAtATime ==
    [][\A p \in Pids :
          LET t == procs[p]
              n == procs'[p]
              counted(r) == r.processed + r.failed
          IN  t.kind = "pass" =>
                /\ n.pc \in {"fb_call", "rw_attempt", "rl_sleep", "http_wait",
                             "backoff", "fb_ret"}
                      => /\ counted(n) = BeforeBatch(n.idx)
                         /\ \A k \in 1..Len(n.batch) :
                               n.batch[k].bubble_uid = BeforeBatch(n.idx) + k
                /\ n.pc \in {"ua_call", "ua_refresh", "ua_retry", "ua_ret", "ua_raised"}
                      => /\ counted(n) = BeforeBatch(n.idx) + n.i - 1
                         /\ n.uid = BeforeBatch(n.idx) + n.i
                /\ n.idx # t.idx
                      => /\ n.idx = t.idx + 1
                         /\ t.idx > 0 => t.pc = "pass_sleep" /\ t.timer = 0
                /\ (n.pc = "pass_sleep" /\ t.pc # "pass_sleep")
                      => /\ t.pc \in {"ua_ret", "ua_raised"} /\ t.i = Len(t.batch)
                         /\ n.timer = InterBatchDelay
                         /\ n.idx < NumBatches(Len(n.roster))
                /\ (n.pc = "pass_algolia" /\ t.pc # "pass_algolia")
                      => /\ t.pc \in {"ua_ret", "ua_raised"} /\ t.i = Len(t.batch)
                         /\ t.idx = NumBatches(Len(t.roster))
                         /\ counted(n) = Len(n.roster)]_vars

\* the pass is in the provider call of its second batch after the pause
C29_Witness ==
    \E p \in Pids : /\ procs[p].kind = "pass" /\ procs[p].pc = "http_wait"
                    /\ procs[p].idx = 2
                    /\ procs[p].processed + procs[p].failed = BatchSize

----------------------------------------------------------------------------
\* Properties of the index update of the pass (SpecPush)

\* C30: the pass hands its records to the index only when every expert of the
\* roster has been counted; the index gets exactly the records of the experts
\* counted as processed, none for an expert counted as failed; and each
\* processed expert's record carries the value that a write of this pass has
\* stored for that expert (one applied write per processed expert).
C30_IndexGetsWhatPassWrote ==
    [][\A p \in Pids :
          LET t == procs[p]
              n == procs'[p]
          IN  t.kind = "pass" =>
                /\ n.wrote # t.wrote
                      => experts'[t.uid].earliest_available_unix = t.val
                /\ n.algolia # t.algolia
                      => /\ n.algolia = Append(t.algolia,
                                [objectID |-> t.uid,
                                 earliest_available_unix |-> t.val])
                         /\ n.processed = t.processed + 1
                         /\ n.failed = t.failed
                         /\ n.wrote = n.processed
                /\ n.failed # t.failed => n.algolia = t.algolia
                /\ n.sink # t.sink
                      => /\ t.processed + t.failed = Len(t.roster)
                         /\ n.sink = "updated"
                               => /\ n.pushed = t.algolia
                                  /\ Len(n.pushed) = t.processed]_vars

----------------------------------------------------------------------------
\* Properties of the unique columns and of the upsert (SpecUnique)

\* no two stored experts hold the same cronofy_id
UniqueCronofy(rows) ==
    \A u, v \in DOMAIN rows : u # v => rows[u].cronofy_id # rows[v].cronofy_id

\* the bubble_uids of a submission
UidsOf(data) == {data[i].bubble_uid : i \in DOMAIN data}

\* C21: no two stored experts ever hold the same cronofy_id (the stored experts
\* are keyed by bubble_uid, so no two share one); a PUT of a stored expert
\* whose cronofy_id is held by another expert when it saves is answered 500
\* and changes no expert,
\* and so does a bulk upsert with an entry whose cronofy_id is held by an expert
\* outside the submission, or with an entry it takes for new whose bubble_uid
\* is stored by the time it writes.
C21_UniqueKeys ==
    [][/\ UniqueCronofy(experts) /\ UniqueCronofy(experts')
       /\ \A p \in Pids :
            LET t == procs[p]
                n == procs'[p]
            IN  /\ (t.kind = "put" /\ t.pc = "put_save" /\ n.pc # "put_save"
                      /\ t.uid \in DOMAIN experts
                      /\ CronofyHolders(experts, t.inp.cronofy_id) \ {t.uid} # {})
                      => n.pc = "put_500" /\ experts' = experts
                /\ (t.kind = "bulk" /\ t.pc = "bulk_write" /\ n.pc # "bulk_write"
                      /\ \E i \in DOMAIN t.data :
                            \/ CronofyHolders(experts, t.data[i].cronofy_id)
                                    \ UidsOf(t.data) # {}
                            \/ /\ t.data[i].bubble_uid \notin DOMAIN t.existing_map
                               /\ t.data[i].bubble_uid \in DOMAIN experts)
                      => n.pc = "bulk_500" /\ experts' = experts]_vars

\* a PUT and a bulk upsert have both been refused for a cronofy_id that a
\* stored expert holds
C21_Witness ==
    \E p, q \in Pids :
        /\ procs[p].kind = "put" /\ procs[p].pc = "put_500"
        /\ procs[p].uid \in DOMAIN experts
        /\ CronofyHolders(experts, procs[p].inp.cronofy_id) \ {procs[p].uid} # {}
        /\ procs[q].kind = "bulk" /\ procs[q].pc = "bulk_500"
        /\ \E i \in DOMAIN procs[q].data :
              CronofyHolders(experts, procs[q].data[i].cronofy_id)
                    \ UidsOf(procs[q].data) # {}

\* C22: a bulk upsert that succeeds leaves, for every entry, one expert of
\* that bubble_uid with the entry's name, cronofy_id and calendar ids: with
\* version 0 when none was stored immediately before the write, and with the
\* stored version raised by exactly 1 when one was.
C22_UpsertCreatesOrBumps ==
    [][\A p \in Pids :
          LET t == procs[p]
          IN  (t.kind = "bulk" /\ t.pc = "bulk_write" /\ procs'[p].pc = "bulk_clear")
                => \A i \in DOMAIN t.data :
                      LET e == t.data[i]
                          u == e.bubble_uid
                      IN  /\ u \in DOMAIN experts'
                          /\ experts'[u].expert_name = e.expert_name
                          /\ experts'[u].cronofy_id = e.cronofy_id
                          /\ experts'[u].calendar_ids = e.calendar_ids
                          /\ experts'[u].version =
                                IF u \in DOMAIN experts THEN experts[u].version + 1
                                ELSE 0]_vars

----------------------------------------------------------------------------
\* Properties of the per-expert failure handling and of the counts (SpecSync)

\* C31: when update_availability raises for an expert of a pass, that expert
\* is counted as failed and gets no Algolia record, nothing else of the pass's
\* counts changes, and the pass goes on with the next expert of the batch, or
\* after the last expert of the batch with the pause before the next batch or
\* with the Algolia update.
C31_ExpertFailureContained ==
    [][\A p \in Pids :
          LET t == procs[p]
              n == procs'[p]
          IN  (t.kind = "pass" /\ t.pc = "ua_raised" /\ n.pc # "ua_raised")
                => /\ n.failed = t.failed + 1
                   /\ n.processed = t.processed
                   /\ n.algolia = t.algolia
                   /\ \A k \in DOMAIN n.algolia : n.algolia[k].objectID # t.uid
                   /\ n.roster = t.roster
                   /\ IF t.i < Len(t.batch)
                      THEN n.pc = "ua_call" /\ n.idx = t.idx /\ n.i = t.i + 1
                                            /\ n.uid = t.uid + 1
                      ELSE IF t.idx < NumBatches(Len(t.roster))
                      THEN n.pc = "pass_sleep" /\ n.idx = t.idx
                      ELSE n.pc = "pass_algolia"]_vars

\* a pass has ended in which the first expert's write failed and every other
\* expert was processed
C31_Witness ==
    \E p \in Pids :
        /\ PassDone(p) /\ procs[p].failed = 1
        /\ procs[p].processed = Len(procs[p].roster) - 1
        /\ \A k \in DOMAIN procs[p].algolia : procs[p].algolia[k].objectID # 1

\* C32: while a pass runs its counts never exceed the roster it loaded, and
\* when a non-empty pass has completed, processed + failed is the size of
\* that roster, which is the number of experts stored when the pass started.
C32_CountsAddUpToRoster ==
    \A p \in Pids :
        procs[p].kind = "pass" =>
            /\ procs[p].processed + procs[p].failed <= Len(procs[p].roster)
            /\ procs[p].pc \in {"pass_algolia", "pass_done"}
                  => /\ procs[p].processed + procs[p].failed = Len(procs[p].roster)
                     /\ Len(procs[p].roster) = RosterSize
                     /\ Len(procs[p].algolia) = procs[p].processed

\* a pass over the whole roster has completed with one failed expert in its
\* second batch
C32_Witness ==
    \E p \in Pids :
        /\ procs[p].kind = "pass" /\ procs[p].pc = "pass_done"
        /\ Len(procs[p].roster) = RosterSize
        /\ procs[p].failed = 1
        /\ \A k \in DOMAIN procs[p].algolia : procs[p].algolia[k].objectID # RosterSize

----------------------------------------------------------------------------
\* Termination of the pass (SpecLive)

\* the pass has returned to its caller
PassReturned(p) ==
    procs[p].kind = "pass" /\ procs[p].pc \in {"pass_done", "pass_empty", "pass_error"}

\* C33: every pass terminates: whatever the roster and however its requests
\* end, the pass returns to its caller; until then a provider call has made at
\* most max_retries + 1 attempts and the pass is at one of its batches.
C33_PassTerminates ==
    /\ <>(\A p \in Pids : PassReturned(p))
    /\ [](\A p \in Pids : /\ procs[p].posts <= MaxRetries + 1
                          /\ procs[p].idx <= NumBatches(Len(procs[p].roster)))

\* a pass has returned after a provider call that used all its attempts in the
\* first batch and the pause before the second
C33_Witness ==
    \E p \in Pids :
        /\ procs[p].kind = "pass" /\ procs[p].pc = "pass_done"
        /\ procs[p].idx = 2
        /\ Cardinality(procs[p].lost) = BatchSize

----------------------------------------------------------------------------
\* Properties of the bulk upsert's transaction (SpecUnique)

\* the stored expert of an entry's bubble_uid has the entry's fields
EntryStored(rows, e) ==
    /\ e.bubble_uid \in DOMAIN rows
    /\ rows[e.bubble_uid].expert_name = e.expert_name
    /\ rows[e.bubble_uid].cronofy_id = e.cronofy_id
    /\ rows[e.bubble_uid].calendar_ids = e.calendar_ids

----------------------------------------------------------------------------
\* Properties of the results of a batch (SpecLive)

\* results holds one result per expert of the batch, in the order of the batch
OneResultPerExpert(batch, results) ==
    /\ Len(results) = Len(batch)
    /\ \A i \in 1..Len(batch) : results[i].expert_id = batch[i].cronofy_id

\* C35: whenever fetch_experts_availability_batch has returned, with the token
\* unset, after a 2xx response or after a failed call, its results are one per
\* expert of the batch in the order of the batch, each with the expert's
\* cronofy_id; and the value the pass hands to update_availability for an
\* expert is the one of the result that carries that expert's cronofy_id.
C35_ResultsPairWithExperts ==
    [][\A p \in Pids :
          LET t == procs[p]
              n == procs'[p]
          IN  /\ n.pc = "fb_ret" => OneResultPerExpert(n.batch, n.results)
              /\ (t.kind = "pass" /\ n.pc = "ua_call" /\ t.pc # "ua_call")
                    => /\ t.results[n.i].expert_id = experts[n.uid].cronofy_id
                       /\ n.val = t.results[n.i].earliest_available_unix
                       /\ n.mem.cronofy_id = t.results[n.i].expert_id]_vars

\* a batch's call has returned a 2xx response with a slot for every expert but
\* the last, and the pass is at the write of that last expert
C35_Witness ==
    \E p \in Pids :
        /\ procs[p].kind = "pass" /\ procs[p].pc = "ua_call"
        /\ procs[p].outcome = "ok"
        /\ procs[p].i = Len(procs[p].batch) /\ procs[p].i = BatchSize
        /\ procs[p].val = Null
        /\ procs[p].results[1].earliest_available_unix # Null

----------------------------------------------------------------------------
\* Properties of the pass next to a delete (SpecPush)

\* C36: an expert deleted while the pass that loaded it is in flight is not
\* recreated by the pass (no step adds a record for a UID the store lacks);
\* an update_availability of the pass that finishes when the record is gone
\* does not return normally but raises, and the pass counts the expert of a
\* call that raised as failed, with no index record.
C36_DeletedExpertFailsInPass ==
    [][/\ DOMAIN experts' \subseteq DOMAIN experts
       /\ \A p \in Pids :
             LET t == procs[p]
                 n == procs'[p]
             IN  t.kind = "pass" =>
                   /\ (n.pc = "ua_ret" /\ t.pc # "ua_ret")
                         => t.uid \in DOMAIN experts
                   /\ (t.pc = "ua_raised" /\ n.pc # "ua_raised")
                         => /\ n.failed = t.failed + 1
                            /\ n.processed = t.processed
                            /\ n.algolia = t.algolia]_vars

----------------------------------------------------------------------------
\* Properties of the columns update_availability writes (SpecStore)

\* C37: a step of update_availability (its conditional update or its retry)
\* leaves expert_name, cronofy_id and calendar_ids of every stored record as
\* they are and adds or removes no record, whatever the caller's in-memory
\* copy holds; so what a concurrent PUT or bulk upsert has stored in these
\* columns since the caller loaded its copy is still stored afterwards.
C37_UpdateWritesOnlyAvailability ==
    [][\A p \in Pids :
          (procs[p].pc \in {"ua_call", "ua_retry"} /\ procs'[p].pc # procs[p].pc)
             => /\ DOMAIN experts' = DOMAIN experts
                /\ \A u \in DOMAIN experts :
                      /\ experts'[u].expert_name = experts[u].expert_name
                      /\ experts'[u].cronofy_id = experts[u].cronofy_id
                      /\ experts'[u].calendar_ids = experts[u].calendar_ids
                      /\ u # procs[p].uid => experts'[u] = experts[u]]_vars

\* an update_availability has written the record while its in-memory copy
\* differed from the stored record in name, provider id and calendars
C37_Witness ==
    \E p \in Pids :
        /\ procs[p].kind = "ua" /\ procs[p].pc = "ua_ret" /\ procs[p].wrote > 0
        /\ lastWriter[procs[p].uid] = p
        /\ experts[procs[p].uid].earliest_available_unix = procs[p].val
        /\ experts[procs[p].uid].expert_name # procs[p].mem.expert_name
        /\ experts[procs[p].uid].cronofy_id # procs[p].mem.cronofy_id
        /\ experts[procs[p].uid].calendar_ids # procs[p].mem.calendar_ids

----------------------------------------------------------------------------
\* Properties of SimpleCache (SpecTtl)

\* the entries of every key but key are the same before and after the step
OtherKeysKept(key) ==
    /\ DOMAIN cache' \ {key} = DOMAIN cache \ {key}
    /\ \A k \in DOMAIN cache \ {key} : cache'[k] = cache[k]

\* C38: a set at time t with TTL d stores the value with expiry t + d, in
\* place of what the key held; a get returns the stored value exactly when the
\* key has an entry and the time is not later than its expiry, and otherwise
\* returns nothing and leaves the key without an entry; clear leaves no entry,
\* expired or not; and an entry changes in no other way than by set, delete,
\* clear or a get after its expiry.
C38_EntryServedUntilExpiry ==
    [][/\ calc' = calc => cache' = cache
       /\ (calc' # calc /\ calc'.fn = "set") =>
             /\ calc'.key \in DOMAIN cache'
             /\ cache'[calc'.key].value = calc'.value
             /\ cache'[calc'.key].expires_at =
                   calc'.at + (IF calc'.ttl = Null THEN DefaultTtl ELSE calc'.ttl)
             /\ OtherKeysKept(calc'.key)
       /\ (calc' # calc /\ calc'.fn = "get") =>
             /\ IF calc'.key \in DOMAIN cache
                   /\ calc'.at <= cache[calc'.key].expires_at
                THEN calc'.out = cache[calc'.key].value /\ cache' = cache
                ELSE calc'.out = Null /\ calc'.key \notin DOMAIN cache'
             /\ OtherKeysKept(calc'.key)
       /\ (calc' # calc /\ calc'.fn = "clear") => cache' = << >>]_vars

\* a get has returned an entry at the very second of its expiry, set with a
\* TTL of MaxTtl, while the other key held an expired entry
C38_Witness ==
    /\ calc.fn = "get" /\ calc.out # Null
    /\ calc.key \in DOMAIN cache
    /\ calc.at = cache[calc.key].expires_at
    /\ calc.at >= MaxTtl
    /\ \E k \in DOMAIN cache : k # calc.key /\ clock > cache[k].expires_at

----------------------------------------------------------------------------
\* Properties of the cached listing next to the pass (SpecServe)

\* the cache holds a listing that has not expired
ListingCached ==
    ListKey \in DOMAIN cache /\ ~(clock > cache[ListKey].expires_at)

\* C39: no step of the pass, its update_availability calls included, changes
\* the cache; a GET /experts/calendars that finds an unexpired listing returns
\* it as cached, whatever the store holds by then; and the cache changes only
\* when a reader stores a listing, when a reader finds the listing expired, or
\* when a write endpoint clears it.
C39_PassLeavesListingCached ==
    [][/\ \A p \in Pids :
             (procs[p].kind = "pass" /\ procs'[p] # procs[p]) => cache' = cache
       /\ \A p \in Pids :
             (/\ procs[p].kind = "list" /\ procs[p].pc = "idle"
              /\ procs'[p].pc # "idle" /\ ListingCached)
                => /\ procs'[p].pc = "list_ret"
                   /\ procs'[p].listing = cache[ListKey].value
                   /\ cache' = cache
       /\ cache' # cache =>
             \E p \in Pids :
                 /\ procs'[p] # procs[p]
                 /\ \/ procs[p].pc = "list_set"
                    \/ procs[p].kind = "list" /\ procs[p].pc = "idle" /\ ~ListingCached
                    \/ procs[p].pc = "del_clear"]_vars

\* the pass has returned after writing both experts, a reader is about to ask
\* for the listing, and the cache holds an unexpired listing with the experts'
\* values from before the pass, which the store no longer holds
C39_Witness ==
    /\ ListingCached
    /\ \E p \in Pids : /\ procs[p].kind = "pass" /\ procs[p].pc = "pass_done"
                       /\ procs[p].wrote = Cardinality(RouteUids)
    /\ \E p \in Pids : procs[p].kind = "list" /\ procs[p].pc = "idle"
    /\ \A u \in RouteUids :
          /\ u \in DOMAIN experts
          /\ cache[ListKey].value.items[u] = RosterRow(u)
          /\ experts[u].earliest_available_unix
                # cache[ListKey].value.items[u].earliest_available_unix

====
